---- MODULE Spec2Model ----
(***************************************************************************)
(* SimInf: the multithreaded direct-SSA solver of siminf_run.c             *)
(* (SimInf_run_solver_ssa and SimInf_solver_ssa).                          *)
(*                                                                         *)
(* Time is counted in ticks, TicksPerDay ticks to the day, so that tspan   *)
(* and the per-node clocks can lie inside a day.  A double is an integer   *)
(* or the value NaN; comparisons with NaN are false, as in C.              *)
(* Arrays are functions over 0..n-1, indexed as in the C code.  A cell of  *)
(* a buffer that was never written (malloc, allocMatrix) is not in the     *)
(* function's domain.                                                      *)
(***************************************************************************)
EXTENDS Integers, Sequences, FiniteSets, TLC

\* ---------------------------------------------------------------- bounds
TicksPerDay == 2
MaxPartNn == 7
MaxPartThread == 4
MaxCount == 4

\* ------------------------------------------------------ program constants
Nc == 2
Nt == 2
Nd == 1
S == 0
I == 1
PHI == 0
SIMINF_ERR_NEGATIVE_STATE == -1
SIMINF_ERR_INVALID_RATE == -2
SIMINF_ERR_ALLOC_MEMORY_BUFFER == -3
U_it_first == 1

\* ---------------------------------------------------------------- doubles
NaN == 0 - 999

isfinite(x) == x # NaN

FAdd(a, b) == IF a = NaN \/ b = NaN THEN NaN ELSE a + b

FSub(a, b) == IF a = NaN \/ b = NaN THEN NaN ELSE a - b

FLe(a, b) == a # NaN /\ b # NaN /\ a <= b

FGe(a, b) == a # NaN /\ b # NaN /\ a >= b

FGt(a, b) == a # NaN /\ b # NaN /\ a > b

FLt(a, b) == a # NaN /\ b # NaN /\ a < b

\* tt + 1.0, in ticks: the day boundary is not rounded down
PlusOneDay(tt) == tt + TicksPerDay

\* floor(tt) + 1.0, in ticks
FloorPlusOne(tt) == ((tt \div TicksPerDay) + 1) * TicksPerDay

Arr(s) == [k \in 0..(Len(s) - 1) |-> s[k + 1]]

Min(a, b) == IF a < b THEN a ELSE b

\* ------------------------------------------------------------- the models
\* The callbacks handed to the solver: Nt propensities
\*   rate_j(u, v) = c[j] + a[j] * u[src[j]] * (v[PHI] if usev[j]),
\* NaN for transition j when nan[j] and u[I] >= 2, the state-change matrix S
\* (irS, jcS, prS), the dependency graph G (irG, jcG), and a post time
\* step callback of one of three kinds.
SISmat == [irS |-> Arr(<<0, 1, 0, 1>>), jcS |-> Arr(<<0, 2, 4>>),
           prS |-> Arr(<<-1, 1, 1, -1>>),
           irG |-> Arr(<<0, 1, 0, 1>>), jcG |-> Arr(<<0, 2, 4>>)]

NoNaN == <<FALSE, FALSE>>

MkModel(name, c, a, src, usev, nan, pts, failNode, failRc) ==
    SISmat @@ [name |-> name, c |-> Arr(c), a |-> Arr(a), src |-> Arr(src),
               usev |-> Arr(usev), nan |-> Arr(nan), pts |-> pts,
               failNode |-> failNode, failRc |-> failRc]

MZero == MkModel("zero", <<0, 0>>, <<0, 0>>, <<S, I>>, <<FALSE, FALSE>>,
                 NoNaN, "keep", 0, 0)

MSis == MkModel("sis", <<0, 0>>, <<1, 1>>, <<S, I>>, <<FALSE, FALSE>>,
                NoNaN, "keep", 0, 0)

MSise == MkModel("sise", <<0, 0>>, <<1, 1>>, <<S, I>>, <<TRUE, FALSE>>,
                 NoNaN, "track", 0, 0)

MLeak == MkModel("leak", <<0, 1>>, <<0, 0>>, <<S, I>>, <<FALSE, FALSE>>,
                 NoNaN, "keep", 0, 0)

MBad == MkModel("bad", <<1, 0>>, <<0, 1>>, <<S, S>>, <<FALSE, FALSE>>,
                NoNaN, "keep", 0, 0)

MFail == MkModel("fail", <<0, 0>>, <<1, 1>>, <<S, I>>, <<FALSE, FALSE>>,
                 NoNaN, "fail", 1, 0 - 7)

\* The S -> I propensity is not a number once two individuals are infected.
MNan == MkModel("nan", <<0, 0>>, <<1, 1>>, <<S, I>>, <<FALSE, FALSE>>,
                <<TRUE, FALSE>>, "keep", 0, 0)

\* The S -> I propensity is negative in a node without susceptibles.
MNeg == MkModel("neg", <<0 - 1, 0>>, <<1, 1>>, <<S, I>>, <<FALSE, FALSE>>,
                NoNaN, "keep", 0, 0)

\* A model whose second transition is not conservative: an infected
\* individual gives birth to a susceptible one (column 1 of S sums to 1).
MBirth == [MkModel("birth", <<0, 0>>, <<1, 1>>, <<S, I>>, <<FALSE, FALSE>>,
                   NoNaN, "keep", 0, 0)
              EXCEPT !.prS = Arr(<<-1, 1, 1, 0>>)]

\* PropensityFun: (*sa.tr_fun[j])(u, v, ldata, gdata, t)
tr_fun(m, j, u, v, t) ==
    IF m.nan[j] /\ u[I] >= 2 THEN NaN
    ELSE m.c[j] + m.a[j] * u[m.src[j]] * (IF m.usev[j] THEN v[PHI] ELSE 1)

\* PostTimeStepFun: sa.pts_fun(v_new, u, v, ldata, gdata, node, t).
\* The result: the return code and the value stored in v_new (wr says
\* whether v_new was written at all).
pts_fun(m, u, v, nodeid, t) ==
    CASE m.pts = "keep" -> [rc |-> 0, wr |-> TRUE, v_new |-> v]
      [] m.pts = "track" ->
           [rc |-> IF u[I] # v[PHI] THEN 1 ELSE 0, wr |-> TRUE,
            v_new |-> [d \in 0..(Nd - 1) |-> u[I]]]
      [] OTHER ->
           IF nodeid = m.failNode /\ t >= 2 * TicksPerDay
           THEN [rc |-> m.failRc, wr |-> FALSE, v_new |-> v]
           ELSE [rc |-> 0, wr |-> TRUE, v_new |-> v]

\* ------------------------------------------------------------- the events
\* A scheduled event (kind, time in days, node, dest, n, select, shift);
\* select names one compartment, shift the distance to the compartment
\* the individuals move to.
Ev(kind, time, nd, dest, n, select, shift) ==
    [event |-> kind, time |-> time, node |-> nd, dest |-> dest, n |-> n,
     select |-> select, shift |-> shift]

\* ------------------------------------------------------------- the inputs
MkArgs(Nn, Nthread, u0, v0, tspan, m, events) ==
    [Nn |-> Nn, Nthread |-> Nthread, u0 |-> Arr(u0), v0 |-> Arr(v0),
     tspan |-> Arr(tspan), tlen |-> Len(tspan), mdl |-> m, len |-> Len(events),
     events |-> events, mode |-> "run", fp |-> "exact"]

D == TicksPerDay

Tspans == {<<0, D>>, <<0, D, 2 * D>>, <<1, D, D + 1>>}

EvLists(Nn) ==
    {<<>>,
     <<Ev("EXIT", 1, 0, 0, 1, I, 0)>>,
     <<Ev("EXTERNAL_TRANSFER", 1, 0, Nn - 1, 1, S, 0),
       Ev("INTERNAL_TRANSFER", 1, Nn - 1, 0, 1, S, 1)>>}

U0s(Nn) ==
    IF Nn = 1 THEN {<<1, 1>>}
    ELSE IF Nn = 2 THEN {<<1, 1, 1, 0>>, <<0, 1, 2, 0>>}
    ELSE {<<1, 0, 0, 1, 1, 1>>}

V0(Nn) == [k \in 1..(Nn * Nd) |-> 1]

Shapes == {<<1, 2>>, <<2, 2>>, <<3, 2>>}

Models == {MZero, MSis, MSise, MLeak, MBad, MFail, MNan, MNeg}

\* The model with a non-conservative transition runs without events.
BirthInputs ==
    UNION {{MkArgs(n, 2, u0, V0(n), <<0, D>>, MBirth, <<>>) : u0 \in U0s(n)} :
              n \in {1, 2}}

Inputs ==
    UNION {{MkArgs(sh[1], sh[2], u0, V0(sh[1]), ts, m, ev) :
               u0 \in U0s(sh[1]), ts \in Tspans, m \in Models,
               ev \in EvLists(sh[1])} : sh \in Shapes}
    \cup BirthInputs

\* --------------------------------------------------------------- the state
VARIABLES
    args,         \* SimInf_solver_args: the inputs of the run
    pc,           \* position of the initial thread in SimInf_run_solver_ssa
    i_setup,      \* the counter i of the set-up loop
    uu,           \* compartment state of all nodes
    vv_1, vv_2,   \* the two buffers of the continuous state
    update_node,  \* nodes to refresh because of events
    U, V,         \* the dense output matrices
    sim_args,     \* SimInf_thread_args of every worker
    wpc,          \* position of worker i inside the parallel region
    node,         \* the node cursor of worker i in its current loop
    ret,          \* the value returned by the solver
    first_err,    \* history: the first non-zero code latched in the run
    day_log,      \* history: what happened in the current day
    wrote,        \* history: cells written by worker i in the current day
    det,          \* history of the repeated run: round, draws, first result
    stream,       \* the numbers drawn so far from every generator
    hist,         \* history: where invalid rates were seen, aborted workers
    mem           \* siminf_run: position, heap blocks, ingested matrices

vars == <<args, pc, i_setup, uu, vv_1, vv_2, update_node, U, V, sim_args,
          wpc, node, ret, first_err, day_log, wrote, det, stream, hist, mem>>

Workers == 0..(args.Nthread - 1)

\* calloc(args->Nthread, sizeof(SimInf_thread_args))
ZeroArgs ==
    [rng |-> 0, Ntot |-> 0, Ni |-> 0, Nn |-> 0, tt |-> 0, next_day |-> 0,
     U_it |-> 0, V_it |-> 0, errcode |-> 0, v |-> 0,
     t_rate |-> <<>>, sum_t_rate |-> <<>>, t_time |-> <<>>,
     E1 |-> <<>>, E1_index |-> 0, E2 |-> <<>>, E2_index |-> 0]

EmptyDay == [ssa_err |-> FALSE, pts_calls |-> 0, cols |-> 0]

NoHist == [inv |-> {}, abort |-> {}]

\* siminf_run is not followed: no block is tracked.
NoMem == [at |-> "off", k |-> 0, heap |-> <<>>, err |-> 0, x |-> <<>>,
          pr |-> <<>>]

NoDet == [on |-> FALSE, round |-> 1, ret |-> 0, U |-> <<>>]

\* The state once uu, vv_1, vv_2, update_node, the master generator and
\* sim_args are allocated and column 0 of U and V is written.
InitOf(a) ==
    /\ args = a
    /\ pc = "setup"
    /\ i_setup = 0
    /\ uu = a.u0
    /\ vv_1 = a.v0
    /\ vv_2 = <<>>
    /\ update_node = [n \in 0..(a.Nn - 1) |-> 0]
    /\ U = a.u0
    /\ V = a.v0
    /\ sim_args = [i \in 0..(a.Nthread - 1) |-> ZeroArgs]
    /\ wpc = [i \in 0..(a.Nthread - 1) |-> "idle"]
    /\ node = [i \in 0..(a.Nthread - 1) |-> 0]
    /\ ret = 0
    /\ first_err = 0
    /\ day_log = EmptyDay
    /\ wrote = [i \in 0..(a.Nthread - 1) |-> {}]
    /\ stream = [i \in 0..(a.Nthread - 1) |-> <<>>]
    /\ hist = NoHist

Init == \E a \in Inputs : InitOf(a) /\ det = NoDet /\ mem = NoMem

\* ------------------------------------------------------------ the set-up
\* Faulty variants of the partition: the remainder moved into the start of
\* the last worker, and the remainder given to every worker.
PartNiShift(i, Nn, Nthread) ==
    i * (Nn \div Nthread) + (IF i = Nthread - 1 THEN Nn % Nthread ELSE 0)

PartNnAll(i, Nn, Nthread) == (Nn \div Nthread) + (Nn % Nthread)

\* The node partition of worker i.
PartNi(i, Nn, Nthread) == i * (Nn \div Nthread)

PartNn(i, Nn, Nthread) ==
    (Nn \div Nthread) + (IF i = Nthread - 1 THEN Nn % Nthread ELSE 0)

\* Faulty variant: every worker draws from the generator of worker 0.
RngShared(i) == 0

\* The generator worker i draws from.
RngOf(i) == i

\* One iteration of the set-up loop.
SetupWorker ==
    /\ pc = "setup"
    /\ i_setup < args.Nthread
    /\ LET i == i_setup
           ni == PartNi(i, args.Nn, args.Nthread)
           nn == PartNn(i, args.Nn, args.Nthread)
       IN sim_args' = [sim_args EXCEPT ![i] =
              [@ EXCEPT !.rng = RngOf(i), !.Ntot = args.Nn, !.Ni = ni,
                        !.Nn = nn, !.tt = args.tspan[0],
                        !.next_day = FloorPlusOne(args.tspan[0]),
                        !.U_it = U_it_first, !.V_it = U_it_first,
                        !.v = 1,
                        !.t_rate = [k \in {} |-> 0],
                        !.sum_t_rate = [k \in {} |-> 0],
                        !.t_time = [k \in {} |-> 0]]]
    /\ i_setup' = i_setup + 1
    /\ UNCHANGED <<mem, hist, args, pc, uu, vv_1, vv_2, update_node, U, V, wpc, node,
                   ret, first_err, day_log, wrote, det, stream>>

\* Node n belongs to the partition of worker i.
Owns(i, n) == sim_args[i].Ni <= n /\ n < sim_args[i].Ni + sim_args[i].Nn

IsE2(e) == e.event = "EXTERNAL_TRANSFER"

\* SimInf_split_events: the E1 events of the nodes of each worker, in input
\* order, and all E2 events in the queue of worker 0.
SimInf_split_events ==
    /\ pc = "setup"
    /\ i_setup = args.Nthread
    /\ args.mode = "run"
    /\ sim_args' = [i \in Workers |->
           [sim_args[i] EXCEPT
              !.E1 = SelectSeq(args.events,
                         LAMBDA e : ~IsE2(e) /\ Owns(i, e.node)),
              !.E2 = IF i = 0 THEN SelectSeq(args.events, IsE2) ELSE <<>>,
              !.E1_index = 1, !.E2_index = 1]]
    /\ pc' = "init"
    /\ wpc' = [i \in Workers |-> "init"]
    /\ UNCHANGED <<mem, hist, args, i_setup, uu, vv_1, vv_2, update_node, U, V, node,
                   ret, first_err, day_log, wrote, det, stream>>

\* ------------------------------------------------------- solver: helpers
\* &sa.u[node * sa.Nc] and &sa.v[node * sa.Nd] of worker i
uOf(u, i, n) == [c \in 0..(Nc - 1) |-> u[(sim_args[i].Ni + n) * Nc + c]]

VBuf(sel) == IF sel = 1 THEN vv_1 ELSE vv_2

vOf(buf, i, n) == [d \in 0..(Nd - 1) |-> buf[(sim_args[i].Ni + n) * Nd + d]]

\* Faulty variant: v_new is the buffer v itself.
SameBuf(sel) == sel

\* v_new of a worker whose v is buffer sel (lines 642-643, 500-504)
Other(sel) == 3 - sel

\* buf with the cells of w stored
Store(buf, w) ==
    [k \in (DOMAIN buf) \cup (DOMAIN w) |->
        IF k \in DOMAIN w THEN w[k] ELSE buf[k]]

InvalidRate(rate) == ~isfinite(rate) \/ FLt(rate, 0)

RECURSIVE SumRates(_, _, _)
SumRates(t_rate, base, j) ==
    IF j = 0 THEN 0 ELSE FAdd(SumRates(t_rate, base, j - 1), t_rate[base + j - 1])

\* The history of latched codes: codes is what this step latched, in order.
LatchFirst(codes) ==
    IF first_err = 0 /\ codes # <<>> THEN codes[1] ELSE first_err

\* The draws ds taken from generator g agree with the fixed stream of g:
\* in the first run they are recorded, in the repeated run they are replayed.
DrawOK(g, ds) ==
    (det.on /\ det.round = 2) =>
        \A k \in 1..Len(ds) : k <= Len(stream[g]) => ds[k] = stream[g][k]

DrawStep(g, ds) ==
    IF ~det.on THEN stream
    ELSE IF det.round = 1 THEN [stream EXCEPT ![g] = @ \o ds]
    ELSE [stream EXCEPT ![g] =
              SubSeq(@, Min(Len(ds), Len(@)) + 1, Len(@))]

\* ------------------------------------------------ solver: initialisation
\* Lines 294-321: the rates, their sum and the clock of every node of
\* worker i.
InitRates(i) ==
    /\ pc = "init"
    /\ wpc[i] = "init"
    /\ LET sa == sim_args[i]
           m == args.mdl
           rate(k) == tr_fun(m, k % Nt, uOf(uu, i, k \div Nt),
                             vOf(VBuf(sa.v), i, k \div Nt), sa.tt)
           tr == [k \in 0..(Nt * sa.Nn - 1) |-> rate(k)]
           bad == \E k \in DOMAIN tr : InvalidRate(tr[k])
           codes == IF bad THEN <<SIMINF_ERR_INVALID_RATE>> ELSE <<>>
       IN /\ sim_args' = [sim_args EXCEPT ![i] =
                 [@ EXCEPT !.t_rate = tr,
                           !.sum_t_rate = [n \in 0..(sa.Nn - 1) |->
                                              SumRates(tr, n * Nt, Nt)],
                           !.t_time = [n \in 0..(sa.Nn - 1) |-> sa.tt],
                           !.errcode = IF bad THEN SIMINF_ERR_INVALID_RATE
                                       ELSE @]]
          /\ first_err' = LatchFirst(codes)
          /\ hist' = [hist EXCEPT !.inv = IF bad THEN @ \cup {"init"} ELSE @]
    /\ wpc' = [wpc EXCEPT ![i] = "initdone"]
    /\ UNCHANGED <<mem, args, pc, i_setup, uu, vv_1, vv_2, update_node, U, V,
                   node, ret, day_log, wrote, det, stream>>

\* Faulty variants: no code is returned; the code of the last worker, in
\* index order, whose errcode is set.
NoCode(sas) == 0

LastCode(sas) ==
    LET bad == {k \in DOMAIN sas : sas[k].errcode # 0}
    IN IF bad = {} THEN 0
       ELSE sas[CHOOSE k \in bad : \A l \in bad : k >= l].errcode

\* The code the solver returns: that of the first worker, in index order,
\* whose errcode is set.
FirstCode(sas) ==
    LET bad == {k \in DOMAIN sas : sas[k].errcode # 0}
    IN IF bad = {} THEN 0
       ELSE sas[CHOOSE k \in bad : \A l \in bad : k <= l].errcode

\* Lines 324-327: check for error during initialization.
InitCheck ==
    /\ pc = "init"
    /\ \A i \in Workers : wpc[i] = "initdone"
    /\ IF FirstCode(sim_args) # 0
       THEN /\ pc' = "done"
            /\ ret' = FirstCode(sim_args)
            /\ wpc' = [i \in Workers |-> "idle"]
       ELSE /\ pc' = "run"
            /\ ret' = ret
            /\ wpc' = [i \in Workers |-> "ssa"]
    /\ UNCHANGED <<mem, hist, args, i_setup, uu, vv_1, vv_2, update_node, U, V,
                   sim_args, node, first_err, day_log, wrote, det, stream>>

\* --------------------------------------------------- solver: the SSA step
\* A read of t_rate; the scan of lines 364-366 may read one cell past the
\* rates of the node, whose value it does not use.
ReadRate(t_rate, k) == IF k \in DOMAIN t_rate THEN t_rate[k] ELSE 0

\* Lines 364-366: the cumulative scan.
RECURSIVE ScanTr(_, _, _, _, _)
ScanTr(t_rate, base, tr, cum, rand) ==
    IF tr < Nt /\ FGt(rand, cum)
    THEN ScanTr(t_rate, base, tr + 1,
                FAdd(cum, ReadRate(t_rate, base + tr + 1)), rand)
    ELSE tr

\* Lines 364-366: the indices of t_rate that the scan reads, those in acc
\* and those of the passes to come.
RECURSIVE ScanReads(_, _, _, _, _, _)
ScanReads(t_rate, base, tr, cum, rand, acc) ==
    IF tr < Nt /\ FGt(rand, cum)
    THEN ScanReads(t_rate, base, tr + 1,
                   FAdd(cum, ReadRate(t_rate, base + tr + 1)), rand,
                   acc \cup {base + tr + 1})
    ELSE acc

\* Faulty variant: the selected transition is kept.
BackNone(t_rate, base, tr) == tr

\* Line 374: go backwards to the first nonzero rate.
RECURSIVE BackTr(_, _, _)
BackTr(t_rate, base, tr) ==
    IF tr > 0 /\ t_rate[base + tr] = 0
    THEN BackTr(t_rate, base, tr - 1)
    ELSE tr

\* Lines 363-385: the transition that occurs, or a nil event.
SelectTr(t_rate, base, rand) ==
    LET tr0 == ScanTr(t_rate, base, 0, t_rate[base], rand)
        tr1 == IF tr0 >= Nt THEN Nt - 1 ELSE tr0
        tr2 == IF t_rate[base + tr1] = 0 THEN BackTr(t_rate, base, tr1)
               ELSE tr1
    IN [tr |-> tr2, nil |-> t_rate[base + tr2] = 0]

\* Faulty variant: the sign of a count is not tested.
NeverNegative(x) == FALSE

IsNegative(x) == x < 0

\* Faulty variant: only the first entry of the column is added.
ApplyFirst(m, u, ubase, j, hi) ==
    IF j >= hi THEN [u |-> u, neg |-> FALSE]
    ELSE LET cell == ubase + m.irS[j]
             u1 == [u EXCEPT ![cell] = @ + m.prS[j]]
         IN [u |-> u1, neg |-> IsNegative(u1[cell])]

\* Lines 388-392: add column tr of S to the node whose counts start at
\* ubase; neg says whether a count became negative.
RECURSIVE ApplyS(_, _, _, _, _)
ApplyS(m, u, ubase, j, hi) ==
    IF j >= hi THEN [u |-> u, neg |-> FALSE]
    ELSE LET cell == ubase + m.irS[j]
             u1 == [u EXCEPT ![cell] = @ + m.prS[j]]
             rest == ApplyS(m, u1, ubase, j + 1, hi)
         IN [u |-> rest.u, neg |-> IsNegative(u1[cell]) \/ rest.neg]

\* Lines 396-407 and 451-461: recompute the rates idxs of the node whose
\* rates start at base; delta is the change of their sum, bad whether a
\* rate is invalid.
RECURSIVE Refresh(_, _, _, _, _, _, _)
Refresh(m, t_rate, base, uN, vN, t, idxs) ==
    IF idxs = <<>> THEN [t_rate |-> t_rate, delta |-> 0, bad |-> FALSE]
    ELSE LET k == base + Head(idxs)
             old == t_rate[k]
             rate == tr_fun(m, Head(idxs), uN, vN, t)
             rest == Refresh(m, [t_rate EXCEPT ![k] = rate], base, uN, vN, t,
                             Tail(idxs))
         IN [t_rate |-> rest.t_rate,
             delta |-> FAdd(FSub(rate, old), rest.delta),
             bad |-> InvalidRate(rate) \/ rest.bad]

\* Faulty variant: only the first row of the column.
ColumnHead(ir, jc, tr) == [k \in 1..1 |-> ir[jc[tr]]]

\* The rows of column tr of a sparse matrix (ir, jc), in order.
Column(ir, jc, tr) == [k \in 1..(jc[tr + 1] - jc[tr]) |-> ir[jc[tr] + k - 1]]

\* Faulty variant: only the first propensity is recomputed.
FirstRateOnly == [k \in 1..1 |-> k - 1]

\* Line 451: for (; j < sa.Nt; j++)
AllRates == [k \in 1..Nt |-> k - 1]

\* tau = -log(gsl_rng_uniform_pos(sa.rng)) / sa.sum_t_rate[node], the draw
\* given as the number of ticks it yields
Tau(d, sum) == IF sum = NaN THEN NaN ELSE d

\* rand = gsl_rng_uniform_pos(sa.rng) * sa.sum_t_rate[node]
Rands(sum) == IF sum = NaN THEN {NaN} ELSE 1..sum

\* The error of one addition to sum_t_rate, in units of the rates: none
\* under exact arithmetic, at most one unit with rounding.
Rounding == IF args.fp = "exact" THEN {0} ELSE {0 - 1, 0, 1}

\* Faulty variant: the sum is not adjusted.
KeepSum(sum, delta, e) == sum

\* sa.sum_t_rate[node] += delta, with the rounding error e
AddDelta(sum, delta, e) ==
    IF delta = 0 THEN sum
    ELSE IF sum = NaN \/ delta = NaN THEN NaN
    ELSE sum + delta + e

\* Faulty variant: the rates of the first node.
RateBaseZero(n) == 0

\* Lines 397 and 403: node * sa.Nt, where the cached rates of node n start.
RateBase(n) == n * Nt

\* Line 342 and line 343: worker i is at the head of the node loop with a
\* node to step, or inside the step loop of a node.
SsaReady(i) ==
    \/ wpc[i] = "step"
    \/ wpc[i] = "ssa" /\ node[i] < sim_args[i].Nn /\ sim_args[i].errcode = 0

SsaBreak(i, n, sarec, ds) ==
    /\ sim_args' = [sim_args EXCEPT ![i] = sarec]
    /\ node' = [node EXCEPT ![i] = n + 1]
    /\ wpc' = [wpc EXCEPT ![i] = "ssa"]
    /\ stream' = DrawStep(sim_args[i].rng, ds)
    /\ wrote' = [wrote EXCEPT ![i] =
                    @ \cup {<<"ssa", "node", sim_args[i].Ni + n>>}]
    /\ UNCHANGED <<uu, first_err, day_log, hist>>

\* One transition fires (lines 359-408).  Counts are explored within
\* -MaxCount..MaxCount.
SsaFire(i, n, t1, tr, ds, e) ==
    LET sa == sim_args[i]
        m == args.mdl
        ubase == (sa.Ni + n) * Nc
        ap == ApplyS(m, uu, ubase, m.jcS[tr], m.jcS[tr + 1])
        rf == Refresh(m, sa.t_rate, RateBase(n), uOf(ap.u, i, n),
                      vOf(VBuf(sa.v), i, n), t1, Column(m.irG, m.jcG, tr))
        codes == (IF ap.neg THEN <<SIMINF_ERR_NEGATIVE_STATE>> ELSE <<>>)
                 \o (IF rf.bad THEN <<SIMINF_ERR_INVALID_RATE>> ELSE <<>>)
    IN /\ \A c \in 0..(Nc - 1) :
             ap.u[ubase + c] \in (0 - MaxCount)..MaxCount
       /\ uu' = ap.u
       /\ hist' = [hist EXCEPT !.inv = IF rf.bad THEN @ \cup {"ssa"} ELSE @]
       /\ sim_args' = [sim_args EXCEPT ![i] =
              [@ EXCEPT !.t_time[n] = t1,
                        !.t_rate = rf.t_rate,
                        !.sum_t_rate[n] = AddDelta(@, rf.delta, e),
                        !.errcode = IF codes = <<>> THEN @
                                    ELSE codes[Len(codes)]]]
       /\ first_err' = LatchFirst(codes)
       /\ day_log' = [day_log EXCEPT !.ssa_err = @ \/ codes # <<>>]
       /\ wpc' = [wpc EXCEPT ![i] = "step"]
       /\ stream' = DrawStep(sa.rng, ds)
       /\ wrote' = [wrote EXCEPT ![i] =
              @ \cup {<<"ssa", "node", sa.Ni + n>>}
                \cup {<<"ssa", "u", ubase + m.irS[j]>> :
                         j \in m.jcS[tr]..(m.jcS[tr + 1] - 1)}]
       /\ UNCHANGED node

\* Lines 343-409: one pass of the step loop of the node under the cursor of
\* worker i.
SsaStep(i) ==
    /\ pc = "run"
    /\ SsaReady(i)
    /\ LET sa == sim_args[i]
           n == node[i]
           sum == sa.sum_t_rate[n]
       IN IF FLe(sum, 0)
          THEN SsaBreak(i, n, [sa EXCEPT !.t_time[n] = sa.next_day], <<>>)
          ELSE \E d1 \in 1..TicksPerDay :
                 LET tau == Tau(d1, sum)
                     t1 == FAdd(sa.t_time[n], tau)
                 IN IF FGe(FAdd(tau, sa.t_time[n]), sa.next_day)
                    THEN /\ DrawOK(sa.rng, <<d1>>)
                         /\ SsaBreak(i, n,
                                [sa EXCEPT !.t_time[n] = sa.next_day], <<d1>>)
                    ELSE \E d2 \in Rands(sum) :
                           LET sel == SelectTr(sa.t_rate, n * Nt, d2)
                           IN /\ DrawOK(sa.rng, <<d1, d2>>)
                              /\ IF sel.nil
                                 THEN SsaBreak(i, n,
                                        [sa EXCEPT !.t_time[n] = t1,
                                                   !.sum_t_rate[n] = 0],
                                        <<d1, d2>>)
                                 ELSE \E e \in Rounding :
                                        SsaFire(i, n, t1, sel.tr,
                                                <<d1, d2>>, e)
    /\ UNCHANGED <<mem, args, pc, i_setup, vv_1, vv_2, update_node, U, V, ret,
                   det>>

\* ------------------------------------------------------ scheduled events
\* One event applied to the counts u and the flags upd; err is the error
\* it raises (the counts are then left alone).
ApplyEvent(u, upd, e) ==
    LET src == e.node * Nc + e.select
        to == IF IsE2(e) THEN e.dest ELSE e.node
        dst == to * Nc + e.select + e.shift
    IN CASE e.event = "ENTER" ->
              [u |-> [u EXCEPT ![src] = @ + e.n],
               upd |-> [upd EXCEPT ![e.node] = 1], err |-> 0]
         [] e.event # "ENTER" /\ u[src] < e.n ->
              [u |-> u, upd |-> upd, err |-> SIMINF_ERR_NEGATIVE_STATE]
         [] e.event = "EXIT" /\ u[src] >= e.n ->
              [u |-> [u EXCEPT ![src] = @ - e.n],
               upd |-> [upd EXCEPT ![e.node] = 1], err |-> 0]
         [] OTHER ->
              [u |-> [[u EXCEPT ![src] = @ - e.n] EXCEPT ![dst] = @ + e.n],
               upd |-> [upd EXCEPT ![e.node] = 1, ![to] = 1], err |-> 0]

\* Every event of queue q from idx on that is due at time tt, until one
\* raises an error.
RECURSIVE ProcessEvents(_, _, _, _, _)
ProcessEvents(q, idx, tt, u, upd) ==
    IF idx <= Len(q) /\ q[idx].time * TicksPerDay <= tt
    THEN LET r == ApplyEvent(u, upd, q[idx])
         IN IF r.err # 0
            THEN [u |-> u, upd |-> upd, idx |-> idx, err |-> r.err]
            ELSE ProcessEvents(q, idx + 1, tt, r.u, r.upd)
    ELSE [u |-> u, upd |-> upd, idx |-> idx, err |-> 0]

\* Lines 412-415: the node loop of worker i is over (no node left, or an
\* error latched); SimInf_process_E1_events, then the worker waits at the
\* barrier.
SimInf_process_E1_events(i) ==
    /\ pc = "run"
    /\ wpc[i] = "ssa"
    /\ ~(node[i] < sim_args[i].Nn /\ sim_args[i].errcode = 0)
    /\ LET sa == sim_args[i]
           r == ProcessEvents(sa.E1, sa.E1_index, sa.tt, uu, update_node)
           codes == IF r.err # 0 THEN <<r.err>> ELSE <<>>
       IN /\ uu' = r.u
          /\ update_node' = r.upd
          /\ sim_args' = [sim_args EXCEPT ![i] =
                 [@ EXCEPT !.E1_index = r.idx,
                           !.errcode = IF r.err # 0 THEN r.err ELSE @]]
          /\ first_err' = LatchFirst(codes)
    /\ wpc' = [wpc EXCEPT ![i] = "bar1"]
    /\ UNCHANGED <<mem, hist, args, pc, i_setup, vv_1, vv_2, U, V, node, ret, day_log,
                   wrote, det, stream>>

Rank(p) ==
    CASE p \in {"ssa", "step"} -> 1
      [] p = "bar1" -> 2
      [] p = "e2" -> 3
      [] p = "bar2" -> 4
      [] p \in {"post", "adv"} -> 5
      [] p = "end" -> 6
      [] OTHER -> 0

AllArrived(b) == \A j \in Workers : Rank(wpc[j]) >= Rank(b)

\* Faulty variants: no barrier; every thread runs the master block.
BarrierNone == TRUE

AnyThread(i) == TRUE

\* Line 418 (with the barrier that ends the first omp for)
Barrier1Open == AllArrived("bar1")

\* Line 426
Barrier2Open == AllArrived("bar2")

\* Line 420: omp master
IsMaster(i) == i = 0

\* Worker i leaves the first barrier; the master goes on to the E2 events,
\* the others to the second barrier.
PassBarrier1(i) ==
    /\ pc = "run"
    /\ wpc[i] = "bar1"
    /\ Barrier1Open
    /\ wpc' = [wpc EXCEPT ![i] = IF IsMaster(i) THEN "e2" ELSE "bar2"]
    /\ UNCHANGED <<mem, hist, args, pc, i_setup, uu, vv_1, vv_2, update_node, U, V,
                   sim_args, node, ret, first_err, day_log, wrote, det,
                   stream>>

\* Line 423: SimInf_process_E2_events(sim_args, uu, update_node), on the
\* queue, the clock and the errcode of sim_args[0].
SimInf_process_E2_events(i) ==
    /\ pc = "run"
    /\ wpc[i] = "e2"
    /\ LET sa == sim_args[0]
           r == ProcessEvents(sa.E2, sa.E2_index, sa.tt, uu, update_node)
           codes == IF r.err # 0 THEN <<r.err>> ELSE <<>>
       IN /\ uu' = r.u
          /\ update_node' = r.upd
          /\ sim_args' = [sim_args EXCEPT ![0] =
                 [@ EXCEPT !.E2_index = r.idx,
                           !.errcode = IF r.err # 0 THEN r.err ELSE @]]
          /\ first_err' = LatchFirst(codes)
    /\ wpc' = [wpc EXCEPT ![i] = "bar2"]
    /\ UNCHANGED <<mem, hist, args, pc, i_setup, vv_1, vv_2, U, V, node, ret, day_log,
                   wrote, det, stream>>

\* Worker i leaves the second barrier and starts the second omp for.
PassBarrier2(i) ==
    /\ pc = "run"
    /\ wpc[i] = "bar2"
    /\ Barrier2Open
    /\ wpc' = [wpc EXCEPT ![i] = IF sim_args[i].Nn = 0 THEN "adv" ELSE "post"]
    /\ node' = [node EXCEPT ![i] = 0]
    /\ UNCHANGED <<mem, hist, args, pc, i_setup, uu, vv_1, vv_2, update_node, U, V,
                   sim_args, ret, first_err, day_log, wrote, det, stream>>

\* ------------------------------------------ solver: post time step, sample
\* Faulty variant: no return code of the callback stops the worker.
NeverFatal(rc) == FALSE

\* Line 443: the return code of the callback is an error.
IsFatal(rc) == rc < 0

\* Lines 437-466: the post time step callback of the node under the cursor
\* of worker i, and the refresh of its rates.
PostStep(i) ==
    /\ pc = "run"
    /\ wpc[i] = "post"
    /\ LET sa == sim_args[i]
           n == node[i]
           m == args.mdl
           gn == sa.Ni + n
           nbuf == VBuf(Other(sa.v))
           uN == uOf(uu, i, n)
           res == pts_fun(m, uN, vOf(VBuf(sa.v), i, n), gn, sa.tt)
           cells == (gn * Nd)..(gn * Nd + Nd - 1)
           nbuf1 == IF res.wr
                    THEN Store(nbuf, [k \in cells |-> res.v_new[k - gn * Nd]])
                    ELSE nbuf
           doref == res.rc > 0 \/ update_node[gn] # 0
           rf == Refresh(m, sa.t_rate, n * Nt, uN, vOf(nbuf1, i, n), sa.tt,
                         AllRates)
           codes == IF IsFatal(res.rc) THEN <<res.rc>>
                    ELSE IF doref /\ rf.bad THEN <<SIMINF_ERR_INVALID_RATE>>
                    ELSE <<>>
       IN /\ IF sa.v = 1 THEN vv_2' = nbuf1 /\ vv_1' = vv_1
                         ELSE vv_1' = nbuf1 /\ vv_2' = vv_2
          /\ \E e \in Rounding :
               sim_args' = [sim_args EXCEPT ![i] =
                 IF IsFatal(res.rc) THEN [@ EXCEPT !.errcode = res.rc]
                 ELSE IF doref
                 THEN [@ EXCEPT !.t_rate = rf.t_rate,
                                !.sum_t_rate[n] = AddDelta(@, rf.delta, e),
                                !.errcode = IF rf.bad
                                            THEN SIMINF_ERR_INVALID_RATE
                                            ELSE @]
                 ELSE @]
          /\ update_node' = IF ~IsFatal(res.rc) /\ doref
                            THEN [update_node EXCEPT ![gn] = 0]
                            ELSE update_node
          /\ node' = [node EXCEPT ![i] = IF IsFatal(res.rc) THEN n ELSE n + 1]
          /\ wpc' = [wpc EXCEPT ![i] =
                 IF IsFatal(res.rc) \/ n + 1 >= sa.Nn THEN "adv" ELSE "post"]
          /\ first_err' = LatchFirst(codes)
          /\ day_log' = [day_log EXCEPT !.pts_calls = @ + 1]
          /\ hist' = [hist EXCEPT
                 !.inv = IF ~IsFatal(res.rc) /\ doref /\ rf.bad
                         THEN @ \cup {"post"} ELSE @,
                 !.abort = IF res.rc < 0 THEN @ \cup {i} ELSE @]
          /\ wrote' = [wrote EXCEPT ![i] =
                 @ \cup (IF res.wr THEN {<<"post", "v_new", k>> : k \in cells}
                         ELSE {})
                   \cup (IF ~IsFatal(res.rc) /\ doref
                         THEN {<<"post", "node", gn>>,
                               <<"post", "update_node", gn>>}
                         ELSE {})]
    /\ UNCHANGED <<mem, args, pc, i_setup, uu, U, V, ret, det, stream>>

\* Faulty variant: a column is due as soon as tt reaches its time.
SampleDueGe(it, tt) == it < args.tlen /\ tt >= args.tspan[it]

\* Lines 482 and 486: the loop condition of the two copy loops.
SampleDue(it, tt) == it < args.tlen /\ tt > args.tspan[it]

\* Faulty variant: an if in place of the while, one column a day.
NextItOne(it, tt) == IF SampleDue(it, tt) THEN it + 1 ELSE it

\* Lines 482-484: the cursor after the copy loop.
RECURSIVE NextIt(_, _)
NextIt(it, tt) == IF SampleDue(it, tt) THEN NextIt(it + 1, tt) ELSE it

\* Faulty variant: the column before the cursor.
DestPrev(w, Ntot, it, Ni) == w * ((Ntot * (it - 1)) + Ni)

\* Lines 483 and 487: the first cell of the rows of worker Ni in column it
\* of a matrix with w rows to the node.
Dest(w, Ntot, it, Ni) == w * ((Ntot * it) + Ni)

\* memcpy of len cells of src, from cell from on, to the columns lo..hi-1
\* of out.
CopyOut(out, src, from, len, w, Ntot, Ni, lo, hi) ==
    LET pairs == (lo..(hi - 1)) \X (0..(len - 1))
        at(p) == Dest(w, Ntot, p[1], Ni) + p[2]
        cellsW == {at(p) : p \in pairs}
        srcOf(c) == from + (CHOOSE p \in pairs : at(p) = c)[2]
        isdef == {c \in cellsW : srcOf(c) \in DOMAIN src}
    IN [c \in ((DOMAIN out) \ cellsW) \cup isdef |->
           IF c \in isdef THEN src[srcOf(c)] ELSE out[c]]

\* Lines 468-490: worker i advances its clock to the next day and copies
\* its part of the state to every column of U and V that is due.
AdvanceSample(i) ==
    /\ pc = "run"
    /\ wpc[i] = "adv"
    /\ LET sa == sim_args[i]
           tt1 == sa.next_day
           uit == NextIt(sa.U_it, tt1)
           vit == NextIt(sa.V_it, tt1)
       IN /\ sim_args' = [sim_args EXCEPT ![i] =
                 [@ EXCEPT !.tt = tt1, !.next_day = sa.next_day + TicksPerDay,
                           !.U_it = uit, !.V_it = vit]]
          /\ U' = CopyOut(U, uu, sa.Ni * Nc, sa.Nn * Nc, Nc, sa.Ntot, sa.Ni,
                          sa.U_it, uit)
          /\ V' = CopyOut(V, VBuf(Other(sa.v)), sa.Ni * Nd, sa.Nn * Nd, Nd,
                          sa.Ntot, sa.Ni, sa.V_it, vit)
          /\ day_log' = [day_log EXCEPT !.cols = @ + (uit - sa.U_it)]
          /\ wrote' = [wrote EXCEPT ![i] =
                 @ \cup {<<"post", "U", Dest(Nc, sa.Ntot, k, sa.Ni) + r>> :
                            k \in sa.U_it..(uit - 1),
                            r \in 0..(sa.Nn * Nc - 1)}]
    /\ wpc' = [wpc EXCEPT ![i] = "end"]
    /\ UNCHANGED <<mem, hist, args, pc, i_setup, uu, vv_1, vv_2, update_node, node, ret,
                   first_err, det, stream>>

\* Lines 496-510, after the parallel region: swap v and v_new of every
\* worker up to the first one with an error, return its code; else stop at
\* the final time or start the next day.
SwapAndCheck ==
    /\ pc = "run"
    /\ \A i \in Workers : wpc[i] = "end"
    /\ LET code == FirstCode(sim_args)
           bad == {k \in Workers : sim_args[k].errcode # 0}
           last == IF bad = {} THEN args.Nthread - 1
                   ELSE CHOOSE k \in bad : \A l \in bad : k <= l
           stop == code # 0 \/ sim_args[0].U_it >= args.tlen
       IN /\ sim_args' = [k \in Workers |->
                 IF k <= last THEN [sim_args[k] EXCEPT !.v = Other(@)]
                 ELSE sim_args[k]]
          /\ pc' = IF stop THEN "done" ELSE "run"
          /\ ret' = IF stop THEN code ELSE ret
          /\ wpc' = [k \in Workers |-> IF stop THEN "idle" ELSE "ssa"]
    /\ node' = [k \in Workers |-> 0]
    /\ wrote' = [k \in Workers |-> {}]
    /\ day_log' = EmptyDay
    /\ UNCHANGED <<mem, hist, args, i_setup, uu, vv_1, vv_2, update_node, U, V,
                   first_err, det, stream>>

\* ------------------------------------------------------ specifications
Next ==
    \/ SetupWorker
    \/ SimInf_split_events
    \/ \E i \in Workers : InitRates(i)
    \/ InitCheck
    \/ \E i \in Workers : SsaStep(i)
    \/ \E i \in Workers : SimInf_process_E1_events(i)
    \/ \E i \in Workers : PassBarrier1(i)
    \/ \E i \in Workers : SimInf_process_E2_events(i)
    \/ \E i \in Workers : PassBarrier2(i)
    \/ \E i \in Workers : PostStep(i)
    \/ \E i \in Workers : AdvanceSample(i)
    \/ SwapAndCheck

Spec == Init /\ [][Next]_vars

\* The same run repeated on the same inputs with the same generators: the
\* first run records what every generator yields, the second replays it.
DetInputs ==
    {a \in Inputs : /\ a.tlen = 2 /\ a.Nn = 2
                    /\ a.mdl.name \in {"leak", "bad"}
                    /\ Len(a.events) <= 1}

InitDet ==
    \E a \in DetInputs :
        /\ InitOf(a)
        /\ det = [on |-> TRUE, round |-> 1, ret |-> 0, U |-> <<>>]
        /\ mem = NoMem

Restart ==
    /\ det.on
    /\ det.round = 1
    /\ pc = "done"
    /\ det' = [on |-> TRUE, round |-> 2, ret |-> ret, U |-> U]
    /\ pc' = "setup"
    /\ i_setup' = 0
    /\ uu' = args.u0
    /\ vv_1' = args.v0
    /\ vv_2' = <<>>
    /\ update_node' = [n \in 0..(args.Nn - 1) |-> 0]
    /\ U' = args.u0
    /\ V' = args.v0
    /\ sim_args' = [i \in Workers |-> ZeroArgs]
    /\ wpc' = [i \in Workers |-> "idle"]
    /\ node' = [i \in Workers |-> 0]
    /\ ret' = 0
    /\ first_err' = 0
    /\ day_log' = EmptyDay
    /\ wrote' = [i \in Workers |-> {}]
    /\ hist' = NoHist
    /\ UNCHANGED <<mem, args, stream>>

NextDet == Next \/ Restart

SpecDet == InitDet /\ [][NextDet]_vars

\* The set-up loop alone, over a wide range of Nn and Nthread.
PartInputs ==
    {[MkArgs(n, t, [k \in 1..(n * Nc) |-> 0], V0(n), <<0>>, MZero, <<>>)
         EXCEPT !.mode = "part"] :
        n \in 0..MaxPartNn, t \in 1..MaxPartThread}

InitPart == \E a \in PartInputs : InitOf(a) /\ det = NoDet /\ mem = NoMem

NextPart == SetupWorker

SpecPart == InitPart /\ [][NextPart]_vars

\* Runs in which the additions to sum_t_rate are rounded, so that the sum
\* drifts away from the cached rates (lines 404-408 and 457-462).
RoundedInputs ==
    UNION {{[MkArgs(n, 2, u0, V0(n), ts, m, <<>>) EXCEPT !.fp = "rounded"] :
               u0 \in U0s(n), ts \in {<<0, D>>, <<0, D, 2 * D>>},
               m \in {MSis, MSise}} : n \in {1, 2}}

InitRounded ==
    \E a \in RoundedInputs : InitOf(a) /\ det = NoDet /\ mem = NoMem

SpecRounded == InitRounded /\ [][Next]_vars

\* ------------------------------------------- allocation and ingestion
\* siminf_run (lines 166-245) and SimInf_run_solver_ssa (lines 522-729)
\* followed block by block.  A block is <<name, worker>>; its state in the
\* heap is "null" (pointer NULL), "live", "freed" or "twice" (freed twice).
MaxMemThread == 2

\* The reals in the x slot of a sparse matrix, counted in 1/XScale.
XScale == 2

\* INT_MAX, of ints narrowed to four bits
MaxInt == 7

\* A real too large for an int.
XHuge == (MaxInt + 1) * XScale

\* (int)x for a real in range: the fraction is discarded, towards zero
Trunc(x) == IF x >= 0 THEN x \div XScale ELSE 0 - ((0 - x) \div XScale)

\* The real x is an integer that an int can hold.
Representable(x) ==
    /\ x # NaN
    /\ x % XScale = 0
    /\ Trunc(x) <= MaxInt
    /\ Trunc(x) >= 0 - MaxInt - 1

\* Line 128: (int)xpr[i].  The conversion of a real that is not a number or
\* whose integral part is out of range is undefined: any of these ints.
CastInt(x) ==
    IF x = NaN \/ Trunc(x) > MaxInt \/ Trunc(x) < 0 - MaxInt - 1
    THEN {0 - MaxInt - 1, 0, MaxInt}
    ELSE {Trunc(x)}

\* The arrays that line 128 can produce from the reals xpr.
RECURSIVE CastAll(_)
CastAll(xpr) ==
    IF xpr = <<>> THEN {<<>>}
    ELSE {<<h>> \o t : h \in CastInt(Head(xpr)), t \in CastAll(Tail(xpr))}

\* Lines 106-132: get_sparse_matrix_int(jc, pr, m) with the outcomes okjc
\* and okpr of its two calls of malloc and the converted values cast: the
\* return value, the blocks left allocated and the values stored.
get_sparse_matrix_int(jc, pr, xpr, okjc, okpr, cast) ==
    IF jc /\ ~okjc
    THEN [err |-> SIMINF_ERR_ALLOC_MEMORY_BUFFER, jc |-> FALSE,
          pr |-> FALSE, val |-> <<>>]
    ELSE IF pr /\ ~okpr
    THEN [err |-> SIMINF_ERR_ALLOC_MEMORY_BUFFER, jc |-> jc, pr |-> FALSE,
          val |-> <<>>]
    ELSE [err |-> 0, jc |-> jc, pr |-> pr,
          val |-> IF pr THEN cast ELSE <<>>]

\* Lines 171-193: the four matrices ingested by siminf_run, in order.
Ingested ==
    <<[m |-> "G", jc |-> TRUE, pr |-> FALSE],
      [m |-> "N", jc |-> TRUE, pr |-> TRUE],
      [m |-> "E", jc |-> TRUE, pr |-> FALSE],
      [m |-> "S", jc |-> TRUE, pr |-> TRUE]>>

JcOf(m) == <<"jc" \o m, 0>>

PrOf(m) == <<"pr" \o m, 0>>

\* Lines 231-242: the blocks freed by siminf_run if non-NULL.
WrapBlocks ==
    <<JcOf("G"), JcOf("N"), PrOf("N"), JcOf("E"), JcOf("S"), PrOf("S")>>

\* Faulty variant: vv_2 is not freed.
CleanupNoV2 == <<<<"uu", 0>>, <<"vv_1", 0>>, <<"update_node", 0>>,
                 <<"rng", 0>>>>

\* Lines 706-717: the blocks freed first at the label cleanup, if non-NULL.
CleanupGlobals == <<<<"uu", 0>>, <<"vv_1", 0>>, <<"vv_2", 0>>,
                    <<"update_node", 0>>, <<"rng", 0>>>>

\* Lines 584-694: the allocations of one pass of the set-up loop.
WorkerAllocs(i) ==
    <<{<<"w_rng", i>>}, {<<"E1", i>>}>>
    \o (IF i = 0 THEN <<{<<"E2", 0>>}>> ELSE <<>>)
    \o <<{<<"individuals", i>>}, {<<"u_tmp", i>>}, {<<"t_rate", i>>},
         {<<"sum_t_rate", i>>}, {<<"t_time", i>>}>>

RECURSIVE LoopAllocs(_, _)
LoopAllocs(i, n) ==
    IF i >= n THEN <<>> ELSE WorkerAllocs(i) \o LoopAllocs(i + 1, n)

\* Lines 530-694: the allocations of SimInf_run_solver_ssa in order; the
\* blocks of one entry are allocated before any of them is tested.
SetupAllocs(n) ==
    <<{<<"uu", 0>>}, {<<"vv_1", 0>>, <<"vv_2", 0>>}, {<<"update_node", 0>>},
      {<<"rng", 0>>}, {<<"sim_args", 0>>}>> \o LoopAllocs(0, n)

\* The blocks of worker i released by SimInf_free_args, the arrays of its
\* event queues included.
ArgsBlocks(i) ==
    UNION {WorkerAllocs(i)[k] : k \in DOMAIN WorkerAllocs(i)}
    \cup {<<"E1_events", i>>} \cup (IF i = 0 THEN {<<"E2_events", 0>>} ELSE {})

SolverBlocks(n) ==
    UNION {SetupAllocs(n)[k] : k \in DOMAIN SetupAllocs(n)}
    \cup UNION {ArgsBlocks(i) : i \in 0..(n - 1)}

Range(q) == {q[k] : k \in DOMAIN q}

MemBlocks(n) == Range(WrapBlocks) \cup SolverBlocks(n)

\* free(p) if p is not NULL
FreeIfSet(h, b) ==
    IF h[b] = "null" THEN h
    ELSE [h EXCEPT ![b] = IF @ = "live" THEN "freed" ELSE "twice"]

RECURSIVE FreeSeq(_, _)
FreeSeq(h, q) ==
    IF q = <<>> THEN h ELSE FreeSeq(FreeIfSet(h, Head(q)), Tail(q))

FreeSet(h, bs) ==
    [b \in DOMAIN h |-> IF b \in bs THEN FreeIfSet(h, b)[b] ELSE h[b]]

Live(h, bs) == [b \in DOMAIN h |-> IF b \in bs THEN "live" ELSE h[b]]

\* The x slots handed to siminf_run: integers, a value with a fraction, a
\* value that is not a number, a value too large for an int.
XArrays ==
    {<<XScale, 0 - XScale>>, <<XScale + 1, XScale>>, <<NaN, XScale>>,
     <<XHuge, 0>>}

MemInputs ==
    {[MkArgs(1, t, <<1, 1>>, V0(1), <<0, D>>, MZero, <<>>)
         EXCEPT !.mode = "mem"] : t \in 1..MaxMemThread}

InitMem ==
    \E a \in MemInputs :
        /\ InitOf(a)
        /\ det = NoDet
        /\ \E xs \in XArrays :
              mem = [at |-> "ingest", k |-> 1,
                     heap |-> [b \in MemBlocks(a.Nthread) |-> "null"],
                     err |-> 0,
                     x |-> [N |-> <<XScale, 0 - XScale>>, S |-> xs],
                     pr |-> [N |-> <<>>, S |-> <<>>]]

\* Lines 171-193: one call of get_sparse_matrix_int and the test of err.
WrapIngest ==
    /\ mem.at = "ingest"
    /\ LET g == Ingested[mem.k]
           xpr == IF g.pr THEN mem.x[g.m] ELSE <<>>
       IN \E okjc, okpr \in BOOLEAN :
            \E cast \in CastAll(xpr) :
               LET r == get_sparse_matrix_int(g.jc, g.pr, xpr, okjc, okpr,
                                              cast)
                   got == (IF r.jc THEN {JcOf(g.m)} ELSE {})
                          \cup (IF r.pr THEN {PrOf(g.m)} ELSE {})
               IN mem' = [mem EXCEPT
                     !.heap = Live(@, got),
                     !.err = r.err,
                     !.pr = IF r.pr THEN [@ EXCEPT ![g.m] = r.val] ELSE @,
                     !.at = IF r.err # 0 THEN "wclean"
                            ELSE IF mem.k = Len(Ingested) THEN "setup"
                            ELSE "ingest",
                     !.k = IF r.err = 0 /\ mem.k < Len(Ingested)
                           THEN @ + 1 ELSE 1]
    /\ UNCHANGED <<args, pc, i_setup, uu, vv_1, vv_2, update_node, U, V,
                   sim_args, wpc, node, ret, first_err, day_log, wrote, det,
                   stream, hist>>

\* Lines 530-694: the next allocation of the set-up, and its test.
MemAlloc ==
    /\ mem.at = "setup"
    /\ LET steps == SetupAllocs(args.Nthread)
           want == steps[mem.k]
       IN \E ok \in SUBSET want :
            mem' = [mem EXCEPT
               !.heap = Live(@, ok),
               !.err = IF ok = want THEN 0
                       ELSE SIMINF_ERR_ALLOC_MEMORY_BUFFER,
               !.at = IF ok # want THEN "cleanup"
                      ELSE IF mem.k = Len(steps) THEN "split" ELSE "setup",
               !.k = IF ok = want /\ mem.k < Len(steps) THEN @ + 1 ELSE 0]
    /\ UNCHANGED <<args, pc, i_setup, uu, vv_1, vv_2, update_node, U, V,
                   sim_args, wpc, node, ret, first_err, day_log, wrote, det,
                   stream, hist>>

\* Lines 697-702: SimInf_split_events allocates the arrays of the event
\* queues worker by worker and fails when an allocation fails.
MemSplit ==
    /\ mem.at = "split"
    /\ \E n \in 0..args.Nthread :
         LET got == {<<"E1_events", i>> : i \in 0..(n - 1)}
                    \cup (IF n > 0 THEN {<<"E2_events", 0>>} ELSE {})
         IN mem' = [mem EXCEPT
               !.heap = Live(@, got),
               !.err = IF n = args.Nthread THEN 0
                       ELSE SIMINF_ERR_ALLOC_MEMORY_BUFFER,
               !.at = IF n = args.Nthread THEN "solve" ELSE "cleanup"]
    /\ UNCHANGED <<args, pc, i_setup, uu, vv_1, vv_2, update_node, U, V,
                   sim_args, wpc, node, ret, first_err, day_log, wrote, det,
                   stream, hist>>

\* Line 704: the main loop returns 0 or an error code.
MemSolve ==
    /\ mem.at = "solve"
    /\ \E code \in {0, SIMINF_ERR_NEGATIVE_STATE, SIMINF_ERR_INVALID_RATE,
                    0 - 7} :
         mem' = [mem EXCEPT !.err = code, !.at = "cleanup"]
    /\ UNCHANGED <<args, pc, i_setup, uu, vv_1, vv_2, update_node, U, V,
                   sim_args, wpc, node, ret, first_err, day_log, wrote, det,
                   stream, hist>>

\* Lines 706-720: the label cleanup up to the test of sim_args.
MemCleanup ==
    /\ mem.at = "cleanup"
    /\ mem' = [mem EXCEPT
          !.heap = FreeSeq(@, CleanupGlobals),
          !.at = IF mem.heap[<<"sim_args", 0>>] = "null" THEN "wclean"
                 ELSE "free_args",
          !.k = 0]
    /\ UNCHANGED <<args, pc, i_setup, uu, vv_1, vv_2, update_node, U, V,
                   sim_args, wpc, node, ret, first_err, day_log, wrote, det,
                   stream, hist>>

\* Lines 721-726: SimInf_free_args for the next worker; after the last one
\* sim_args itself is freed and the solver returns.
MemFreeArgs ==
    /\ mem.at = "free_args"
    /\ LET h1 == FreeSet(mem.heap, ArgsBlocks(mem.k))
           last == mem.k + 1 >= args.Nthread
       IN mem' = [mem EXCEPT
             !.heap = IF last THEN FreeIfSet(h1, <<"sim_args", 0>>) ELSE h1,
             !.at = IF last THEN "wclean" ELSE "free_args",
             !.k = IF last THEN 0 ELSE @ + 1]
    /\ UNCHANGED <<args, pc, i_setup, uu, vv_1, vv_2, update_node, U, V,
                   sim_args, wpc, node, ret, first_err, day_log, wrote, det,
                   stream, hist>>

\* Lines 230-244: the label cleanup of siminf_run and its return.
WrapCleanup ==
    /\ mem.at = "wclean"
    /\ mem' = [mem EXCEPT !.heap = FreeSeq(@, WrapBlocks), !.at = "ret"]
    /\ UNCHANGED <<args, pc, i_setup, uu, vv_1, vv_2, update_node, U, V,
                   sim_args, wpc, node, ret, first_err, day_log, wrote, det,
                   stream, hist>>

NextMem ==
    \/ WrapIngest
    \/ MemAlloc
    \/ MemSplit
    \/ MemSolve
    \/ MemCleanup
    \/ MemFreeArgs
    \/ WrapCleanup

SpecMem == InitMem /\ [][NextMem]_vars


\* ------------------------------------------------- SimInf_trajectory
\* The function follows the columns of the data.frame one after the other;
\* the iterations of a parallel loop are taken one at a time in any order,
\* which covers every distribution of them over threads.
MaxTrajT == 2

MaxTrajNn == 2

\* The strictly increasing sequences of length len over 1..n.
Increasing(n, len) ==
    {q \in [1..len -> 1..n] : \A a, b \in 1..len : a < b => q[a] < q[b]}

\* nodes: NULL, or the (1-based) indices of some nodes.
TrajNodes(n) ==
    {[null |-> TRUE, at |-> <<>>]}
    \cup {[null |-> FALSE, at |-> q] :
             q \in UNION {Increasing(n, len) : len \in 1..n}}

\* The arguments of SimInf_trajectory: the state matrices hold a different
\* value in every cell, tspan is counted in ticks.
TrajInput(len, step, n, nd, di, ci) ==
    [tspan |-> [t \in 0..(len - 1) |-> t * step], tlen |-> len, Nn |-> n,
     nodes |-> nd, dm_i |-> di, dm_stride |-> Nc, cm_i |-> ci,
     cm_stride |-> Nd,
     dm |-> [k \in 0..(len * n * Nc - 1) |-> 10 + k],
     cm |-> [k \in 0..(len * n * Nd - 1) |-> 50 + k]]

TrajInputs ==
    UNION {{TrajInput(len, step, n, nd, di, ci) :
               len \in 1..MaxTrajT, step \in {1, D}, nd \in TrajNodes(n),
               di \in UNION {Increasing(Nc, l) : l \in 0..Nc},
               ci \in UNION {Increasing(Nd, l) : l \in 0..Nd}} :
              n \in 1..MaxTrajNn}

\* Line 66: Nnodes
TrajNnodes(in) == IF in.nodes.null THEN in.Nn ELSE Len(in.nodes.at)

\* Line 86: nrow = tlen * Nnodes
TrajNrow(in) == in.tlen * TrajNnodes(in)

\* The vectors of the data.frame in the order they are filled: the row
\* names, 'node', 'time' and one for each selected compartment.
TrajCols(in) ==
    <<<<"row.names", 0>>, <<"node", 0>>, <<"time", 0>>>>
    \o [i \in 1..Len(in.dm_i) |-> <<"dm", i>>]
    \o [i \in 1..Len(in.cm_i) |-> <<"cm", i>>]

\* The iterations of the loop that fills vector col (lines 99, 110-120,
\* 129, 148-161, 178-191).
TrajIters(in, col) ==
    IF col[1] = "row.names" THEN 0..(TrajNrow(in) - 1)
    ELSE 0..(in.tlen - 1)

\* Line 131: p_int_vec[...] = p_real_vec[t], a real stored in an int: the
\* fraction is discarded.
IntOfTime(x) == x \div TicksPerDay

\* The (0-based) node at position k: p_nodes[k] - 1, or k when nodes is
\* NULL.
TrajNode(in, k) == IF in.nodes.null THEN k ELSE in.nodes.at[k + 1] - 1

\* The cells that iteration it of the loop of vector col stores, with their
\* values.
TrajWrites(in, col, it) ==
    LET Nnodes == TrajNnodes(in)
        rows == [k \in 0..(Nnodes - 1) |-> it * Nnodes + k]
    IN IF col[1] = "row.names" THEN [r \in {it} |-> it + 1]
       ELSE [r \in {rows[k] : k \in DOMAIN rows} |->
               LET k == r - it * Nnodes
               IN IF col[1] = "node" THEN TrajNode(in, k) + 1
                  ELSE IF col[1] = "time" THEN IntOfTime(in.tspan[it])
                  ELSE IF col[1] = "dm"
                  THEN in.dm[in.dm_i[col[2]] - 1
                             + (it * in.Nn + TrajNode(in, k)) * in.dm_stride]
                  ELSE in.cm[in.cm_i[col[2]] - 1
                             + (it * in.Nn + TrajNode(in, k)) * in.cm_stride]]

Unset == 0 - 1

\* Rf_allocVector: a vector of nrow cells that hold no value yet
TrajVec(in) == [r \in 0..(TrajNrow(in) - 1) |-> Unset]

InitTraj ==
    \E in \in TrajInputs :
        /\ InitOf([MkArgs(1, 1, <<1, 1>>, V0(1), <<0, D>>, MZero, <<>>)
                      EXCEPT !.mode = "traj"])
        /\ det = NoDet
        /\ mem = [at |-> "traj", in |-> in, k |-> 1,
                  todo |-> TrajIters(in, TrajCols(in)[1]),
                  vec |-> TrajVec(in),
                  cnt |-> [r \in 0..(TrajNrow(in) - 1) |-> 0],
                  result |-> <<>>, writes |-> <<>>]

\* One iteration of the loop that fills the current vector.
TrajIter ==
    /\ mem.at = "traj"
    /\ \E it \in mem.todo :
         LET w == TrajWrites(mem.in, TrajCols(mem.in)[mem.k], it)
         IN mem' = [mem EXCEPT
               !.todo = @ \ {it},
               !.vec = Store(@, w),
               !.cnt = [r \in DOMAIN @ |->
                           IF r \in DOMAIN w THEN @[r] + 1 ELSE @[r]]]
    /\ UNCHANGED <<args, pc, i_setup, uu, vv_1, vv_2, update_node, U, V,
                   sim_args, wpc, node, ret, first_err, day_log, wrote, det,
                   stream, hist>>

\* After the loop: Rf_setAttrib or SET_VECTOR_ELT puts the vector into the
\* result (lines 102, 122, 134, 164, 194) and the next one is allocated;
\* after the last one the result is returned.
TrajAttach ==
    /\ mem.at = "traj"
    /\ mem.todo = {}
    /\ LET cols == TrajCols(mem.in)
           last == mem.k = Len(cols)
       IN mem' = [mem EXCEPT
             !.result = Append(@, mem.vec),
             !.writes = Append(@, mem.cnt),
             !.at = IF last THEN "ret" ELSE "traj",
             !.k = IF last THEN @ ELSE @ + 1,
             !.todo = IF last THEN {} ELSE TrajIters(mem.in, cols[mem.k + 1]),
             !.vec = TrajVec(mem.in),
             !.cnt = [r \in DOMAIN @ |-> 0]]
    /\ UNCHANGED <<args, pc, i_setup, uu, vv_1, vv_2, update_node, U, V,
                   sim_args, wpc, node, ret, first_err, day_log, wrote, det,
                   stream, hist>>

NextTraj == TrajIter \/ TrajAttach

SpecTraj == InitTraj /\ [][NextTraj]_vars


\* ----------------------------------------------- SISe_post_time_step
\* The function of SISe.c on its own: called once with a time t (in
\* ticks), the counts u and the pressure v of a node and the parameters
\* gdata.  The parameters are whole numbers and ALPHA is even, so that
\* every value computed here is exact.
MaxPtsDay == 460

ALPHA == 2

BETA_T1 == 3

BETA_T2 == 4

BETA_T3 == 5

BETA_T4 == 6

EPSILON == 7

days_in_year == 365

days_in_quarter == 91

\* (int)t of line 110, for a time that is not negative
IntOfT(t) == t \div TicksPerDay

\* Faulty variant: the quarter after the fourth is the first again.
BetaWrap(q) == BETA_T1 + (q % 4)

\* Lines 110-123: the parameter chosen by the switch.
BetaOf(q) ==
    CASE q = 0 -> BETA_T1
      [] q = 1 -> BETA_T2
      [] q = 2 -> BETA_T3
      [] OTHER -> BETA_T4

\* Lines 95-133: the value left in v[PHI] and the value returned.
SISe_post_time_step(u, v, gdata, t) ==
    LET tmp == v[PHI]
        q == (IntOfT(t) % days_in_year) \div days_in_quarter
        v1 == tmp * (1 - gdata[BetaOf(q)])
        v2 == IF u[I] + u[S] > 0
              THEN v1 + (gdata[ALPHA] * u[I]) \div (u[I] + u[S])
                      + gdata[EPSILON]
              ELSE v1 + gdata[EPSILON]
    IN [rc |-> IF tmp # v2 THEN 1 ELSE 0, v |-> [v EXCEPT ![PHI] = v2]]

\* gdata with the decay of one quarter set to 1 and the others to 0.
PtsGdata(hot, alpha, eps) ==
    [k \in 0..EPSILON |->
        IF k = hot THEN 1
        ELSE IF k = ALPHA THEN alpha
        ELSE IF k = EPSILON THEN eps
        ELSE 0]

PtsInputs ==
    {[t |-> t, u |-> Arr(u), v |-> Arr(<<v>>),
      gdata |-> PtsGdata(hot, 2, eps)] :
        t \in 0..(MaxPtsDay * TicksPerDay),
        u \in {<<0, 0>>, <<1, 1>>, <<1, 0>>},
        v \in {0, 1},
        hot \in {BETA_T1, BETA_T2, BETA_T3, BETA_T4},
        eps \in {0, 1}}

InitPts ==
    \E in \in PtsInputs :
        /\ InitOf([MkArgs(1, 1, <<1, 1>>, V0(1), <<0, D>>, MSise, <<>>)
                      EXCEPT !.mode = "pts"])
        /\ det = NoDet
        /\ mem = [at |-> "pts", in |-> in, v |-> in.v, rc |-> 0]

\* The call of SISe_post_time_step and its return.
PtsCall ==
    /\ mem.at = "pts"
    /\ LET r == SISe_post_time_step(mem.in.u, mem.v, mem.in.gdata, mem.in.t)
       IN mem' = [mem EXCEPT !.at = "ret", !.v = r.v, !.rc = r.rc]
    /\ UNCHANGED <<args, pc, i_setup, uu, vv_1, vv_2, update_node, U, V,
                   sim_args, wpc, node, ret, first_err, day_log, wrote, det,
                   stream, hist>>

NextPts == PtsCall

SpecPts == InitPts /\ [][NextPts]_vars


\* ------------------------------------------------------------ properties
NodeCells == 0..(args.Nn * Nc - 1)

ZeroModel ==
    /\ \A j \in 0..(Nt - 1) :
          args.mdl.c[j] = 0 /\ args.mdl.a[j] = 0 /\ ~args.mdl.nan[j]
    /\ args.mdl.pts = "keep"
    /\ args.events = <<>>

\* C1: column 0 of the dense outputs holds the initial state (U[:,0] = u0
\* and V[:,0] = v0) in every state of the run, whatever was simulated and
\* whether or not an error is returned.
C1_Column0Preserved ==
    /\ \A k \in NodeCells : k \in DOMAIN U /\ U[k] = args.u0[k]
    /\ \A k \in 0..(args.Nn * Nd - 1) : k \in DOMAIN V /\ V[k] = args.v0[k]

C1_Witness ==
    /\ pc = "done"
    /\ ret # 0
    /\ uu # args.u0
    /\ sim_args[0].U_it > 1

\* C2 as stated: every value copied into U is >= 0, in every run.
C2_AllSamplesNonNegative == \A k \in DOMAIN U : U[k] >= 0

\* C2, amended: a negative value is copied into U only in a run in which
\* an error is latched, and such a run returns a non-zero code.
C2_NonNegativeUnlessError ==
    \/ \A k \in DOMAIN U : U[k] >= 0
    \/ /\ \E i \in Workers : sim_args[i].errcode # 0
       /\ pc = "done" => ret # 0

C2_Witness ==
    /\ pc = "done"
    /\ \E k \in DOMAIN U : U[k] < 0

\* C3: with no events, all propensities zero and a callback that returns
\* 0, no count ever changes, every written column of U equals u0, and the
\* solver returns 0 with all columns written, at the first day boundary
\* past tspan[tlen-1].
C3_ZeroModelUnchanged ==
    ZeroModel =>
        /\ uu = args.u0
        /\ \A k \in DOMAIN U : U[k] = args.u0[k % (args.Nn * Nc)]
        /\ pc = "done" =>
              /\ ret = 0
              /\ DOMAIN U = 0..(args.Nn * Nc * args.tlen - 1)
              /\ \A i \in Workers :
                    /\ sim_args[i].tt > args.tspan[args.tlen - 1]
                    /\ sim_args[i].tt % TicksPerDay = 0
                    /\ \/ sim_args[i].tt - TicksPerDay
                             <= args.tspan[args.tlen - 1]
                       \/ sim_args[i].tt = FloorPlusOne(args.tspan[0])

C3_Witness ==
    /\ ZeroModel
    /\ pc = "done"
    /\ args.tlen >= 3
    /\ args.Nn >= 2

\* C4: for fixed inputs and fixed generators the returned code and U are
\* the same in the repeated run, whatever the interleaving of the workers
\* in either run.
C4_Deterministic ==
    (det.on /\ det.round = 2 /\ pc = "done") => (ret = det.ret /\ U = det.U)

C4_Witness ==
    /\ det.on
    /\ det.round = 2
    /\ pc = "done"
    /\ uu # args.u0
    /\ \A i \in Workers : sim_args[i].Nn > 0

\* C5: no E2 event of a day is applied before every worker has finished
\* the SSA steps and E1 events of that day, and no worker is in the POST
\* phase (or past it) of a day before the E2 processing of that day has
\* finished.
C5_PhaseOrder ==
    /\ \A i \in Workers :
          wpc[i] = "e2" =>
             \A j \in Workers :
                /\ wpc[j] \notin {"ssa", "step"}
                /\ sim_args[j].tt = sim_args[i].tt
    /\ \A i \in Workers :
          wpc[i] \in {"post", "adv", "end"} =>
             \A j \in Workers : wpc[j] \notin {"ssa", "step", "bar1", "e2"}

C5_Witness ==
    /\ wpc[0] = "e2"
    /\ sim_args[0].E2_index <= Len(sim_args[0].E2)
    /\ \E j \in Workers : j # 0 /\ sim_args[j].Nn > 0 /\ uu # args.u0

\* C6: E2 events are executed by the master alone, and while it executes
\* them every other worker waits at a barrier.
C6_E2Exclusive ==
    \A i \in Workers :
        wpc[i] = "e2" =>
           /\ i = 0
           /\ \A j \in Workers \ {i} : wpc[j] \in {"bar1", "bar2"}

C6_Witness ==
    /\ wpc[0] = "e2"
    /\ \E j \in Workers : j # 0 /\ wpc[j] = "bar2" /\ sim_args[j].Nn > 0

\* The node a written cell belongs to.
NodeOfCell(e) ==
    CASE e[2] = "u" -> e[3] \div Nc
      [] e[2] = "v_new" -> e[3] \div Nd
      [] e[2] = "U" -> (e[3] % (args.Nn * Nc)) \div Nc
      [] OTHER -> e[3]

\* C7: in the SSA, POST and sampling steps a worker writes only cells of
\* nodes of its own partition, and no two workers write the same cell.
C7_OwnPartitionOnly ==
    \A i \in Workers :
        \A e \in wrote[i] :
            /\ Owns(i, NodeOfCell(e))
            /\ \A j \in Workers \ {i} : e \notin wrote[j]

C7_Witness ==
    \A i \in Workers :
        /\ \E e \in wrote[i] : e[1] = "ssa" /\ e[2] = "u"
        /\ \E e \in wrote[i] : e[2] = "U"
        /\ \E e \in wrote[i] : e[2] = "v_new"

\* C8: the node partition: worker i owns floor(Nn/Nthread) nodes starting
\* at i*floor(Nn/Nthread), the last worker the Nn mod Nthread remaining
\* ones as well; the parts are contiguous, disjoint and cover every node
\* exactly once, also when Nthread > Nn.
C8_Partition ==
    LET q == args.Nn \div args.Nthread
        r == args.Nn % args.Nthread
    IN /\ \A i \in 0..(i_setup - 1) :
             /\ sim_args[i].Ni = i * q
             /\ sim_args[i].Nn = IF i = args.Nthread - 1 THEN q + r ELSE q
             /\ i > 0 => sim_args[i].Ni
                            = sim_args[i - 1].Ni + sim_args[i - 1].Nn
       /\ i_setup = args.Nthread =>
             \A n \in 0..(args.Nn - 1) :
                Cardinality({i \in Workers : Owns(i, n)}) = 1
       /\ i_setup = args.Nthread =>
             \A i \in Workers :
                sim_args[i].Ni + sim_args[i].Nn <= args.Nn

C8_Witness ==
    /\ i_setup = args.Nthread
    /\ args.Nthread > args.Nn
    /\ args.Nn > 0

C10_FirstLatchedReturned == pc = "done" => ret = first_err

\* C10, amended: the code returned is the errcode, at the end of the day,
\* of the first worker in index order whose errcode is set (0 if there is
\* none); a latched error is never cleared, but a later failure of the
\* same worker replaces its code.
C10_LowestWorkerReturned ==
    /\ first_err # 0 => \E i \in Workers : sim_args[i].errcode # 0
    /\ pc = "done" =>
          \/ /\ ret = 0
             /\ \A i \in Workers : sim_args[i].errcode = 0
          \/ \E k \in Workers :
                /\ sim_args[k].errcode = ret
                /\ ret # 0
                /\ \A l \in 0..(k - 1) : sim_args[l].errcode = 0

C10_Witness ==
    /\ pc = "done"
    /\ ret # 0
    /\ ret # first_err
    /\ \E i, j \in Workers :
          /\ sim_args[i].errcode # 0
          /\ sim_args[j].errcode # 0
          /\ sim_args[i].errcode # sim_args[j].errcode

\* Worker i is inside the step loop of a node whose rate sum is not a
\* number while the rate of transition 0 is not zero: no test of lines
\* 349-383 can leave the loop (sum <= 0, tau + t_time >= next_day and
\* t_rate == 0 are all false), and the scan selects transition 0.
Diverged(i) ==
    /\ pc = "run"
    /\ wpc[i] = "step"
    /\ sim_args[i].sum_t_rate[node[i]] = NaN
    /\ sim_args[i].t_rate[node[i] * Nt] # 0

\* Once in such a loop, always in it: every further pass fires transition
\* 0 again and leaves the sum not a number.
DivergedForever ==
    [][\A i \in Workers : Diverged(i) => Diverged(i)']_vars

\* C11 as stated: whenever a propensity returns a non-finite or negative
\* value (at initialisation, in the refresh after a transition or in the
\* refresh after the post time step) the solver returns INVALID_RATE, and
\* at initialisation it returns before any day is simulated.
C11_InvalidRateReturned ==
    hist.inv # {} =>
        /\ \A i \in Workers : ~Diverged(i)
        /\ pc = "done" => ret = SIMINF_ERR_INVALID_RATE
        /\ "init" \in hist.inv => pc # "run"

\* C12 as stated: once a worker has latched a non-zero errcode in a day,
\* the solver returns a non-zero code at the end of that day: the worker is
\* never in a step loop that cannot end, errcode is never reset, and no
\* later day is started.
C12_ErrorEndsTheDay ==
    \A i \in Workers :
        sim_args[i].errcode # 0 =>
            /\ ~Diverged(i)
            /\ pc = "done" => ret # 0

\* C13: a negative return code of the post time step callback is fatal:
\* the worker calls the callback for none of its remaining nodes, the
\* solver returns a non-zero code at the end of that day without starting
\* another day, and a cell of an output column, once written, never
\* changes (each column is written at most once).
C13_NegativeReturnFatal ==
    /\ [](\A i \in hist.abort : wpc[i] # "post")
    /\ [](hist.abort # {} =>
             \/ pc = "done" /\ ret # 0
             \/ /\ pc = "run"
                /\ \A j \in Workers : wpc[j] \in {"bar2", "post", "adv", "end"})
    /\ [][/\ \A k \in DOMAIN U : k \in DOMAIN U' /\ U'[k] = U[k]
          /\ \A k \in DOMAIN V : k \in DOMAIN V' /\ V'[k] = V[k]]_vars

C13_Witness ==
    /\ pc = "run"
    /\ \A j \in Workers : wpc[j] = "end"
    /\ \E i \in hist.abort :
          /\ node[i] + 1 < sim_args[i].Nn
          /\ sim_args[i].U_it >= 3
    /\ uu # args.u0

\* Worker i is set up.
IsSetUp(i) == pc # "setup" \/ i < i_setup

\* C14: the sampling rule.  After the clock of a worker has advanced to the
\* next day the worker has written exactly the columns k >= 1 with
\* tspan[k] < tt (strict), in increasing k and each once; a successful run
\* has written every column; every row of a column written in a day holds
\* the state of its node at the end of that day.
C14_SamplingRule ==
    /\ [](\A i \in Workers :
             IsSetUp(i) =>
                LET sa == sim_args[i]
                IN /\ sa.U_it >= 1 /\ sa.U_it <= args.tlen
                   /\ \A k \in 1..(sa.U_it - 1) : args.tspan[k] < sa.tt
                   /\ sa.U_it < args.tlen => args.tspan[sa.U_it] >= sa.tt
                   /\ \A k \in 0..(sa.U_it - 1) :
                         \A r \in 0..(sa.Nn * Nc - 1) :
                            Nc * (sa.Ntot * k + sa.Ni) + r \in DOMAIN U)
    /\ [](\A i \in Workers :
             \A e \in wrote[i] :
                e[2] = "U" => U[e[3]] = uu[e[3] % (args.Nn * Nc)])
    /\ []((pc = "done" /\ ret = 0) =>
             /\ DOMAIN U = 0..(args.Nn * Nc * args.tlen - 1)
             /\ \A i \in Workers : sim_args[i].U_it = args.tlen)
    /\ [][/\ \A i \in Workers :
             IsSetUp(i) =>
                /\ sim_args'[i].U_it >= sim_args[i].U_it
                /\ sim_args'[i].U_it # sim_args[i].U_it =>
                      /\ wpc[i] = "adv" /\ wpc'[i] = "end"
                      /\ sim_args'[i].tt = sim_args[i].next_day
          /\ \A k \in DOMAIN U' :
                (k \notin DOMAIN U \/ U'[k] # U[k]) =>
                   \E i \in Workers :
                      /\ k \div (args.Nn * Nc) >= sim_args[i].U_it
                      /\ k \div (args.Nn * Nc) < sim_args'[i].U_it
                      /\ Owns(i, (k % (args.Nn * Nc)) \div Nc)]_vars

\* Two columns are written by one worker on the same day.
C14_Witness ==
    \E i \in Workers :
        /\ sim_args[i].Nn > 0
        /\ wpc[i] = "end"
        /\ \E e, f \in wrote[i] :
              /\ e[2] = "U" /\ f[2] = "U"
              /\ e[3] \div (args.Nn * Nc) # f[3] \div (args.Nn * Nc)
        /\ uu # args.u0

\* C15 as stated: the step loop of every node ends within the day, also
\* after an invalid rate was detected in the middle of the stepping: no
\* worker is ever in a step loop that cannot end.
C15_StepLoopEnds == \A i \in Workers : ~Diverged(i)

\* The clock and the sample cursors of worker i.
Clock(i) ==
    <<sim_args[i].tt, sim_args[i].next_day, sim_args[i].U_it,
      sim_args[i].V_it>>

\* C16 as stated, the part "tt has advanced by exactly one day": the step
\* that ends the day of a worker moves its tt forward by one whole day.
C16_AdvancesOneDay ==
    [][\A i \in Workers :
          (wpc[i] = "adv" /\ wpc'[i] = "end") =>
             sim_args'[i].tt = sim_args[i].tt + TicksPerDay]_vars

\* C16, amended: workers that are at the same side of the end of the day
\* hold the same tt, next_day, U_it and V_it, so at the end of every day
\* all workers agree, a worker whose callback loop was aborted included;
\* next_day = floor(tt) + 1 for every worker; the end of a day moves tt to
\* the next whole day, which is one day later unless tt was the
\* non-integer tspan[0]; worker 0's cursor decides termination for all.
C16_WorkersAligned ==
    /\ [](\A i, j \in Workers :
             (IsSetUp(i) /\ IsSetUp(j)
                 /\ (wpc[i] = "end") = (wpc[j] = "end")) =>
                Clock(i) = Clock(j))
    /\ [](\A i \in Workers :
             IsSetUp(i) =>
                sim_args[i].next_day =
                   ((sim_args[i].tt \div TicksPerDay) + 1) * TicksPerDay)
    /\ []((pc = "run" /\ \A i \in Workers : wpc[i] = "end") =>
             \A j \in Workers :
                (sim_args[j].U_it >= args.tlen) =
                   (sim_args[0].U_it >= args.tlen))
    /\ [][\A i \in Workers :
             IF wpc[i] = "adv" /\ wpc'[i] = "end"
             THEN /\ sim_args'[i].tt = sim_args[i].next_day
                  /\ sim_args'[i].tt % TicksPerDay = 0
                  /\ sim_args'[i].tt - sim_args[i].tt \in 1..TicksPerDay
                  /\ sim_args[i].tt % TicksPerDay = 0 =>
                        sim_args'[i].tt = sim_args[i].tt + TicksPerDay
             ELSE IsSetUp(i) => sim_args'[i].tt = sim_args[i].tt]_vars

\* The third day has ended for all workers although the callback loop of
\* one of them was aborted by a negative return code.
C16_Witness ==
    /\ pc = "run"
    /\ \A j \in Workers : wpc[j] = "end"
    /\ \E i \in hist.abort : node[i] + 1 < sim_args[i].Nn
    /\ \E j \in Workers : j \notin hist.abort /\ sim_args[j].Nn > 0
    /\ sim_args[0].tt = 3 * TicksPerDay

\* The buffer that worker i reads as v, in the state before (Cur) and
\* after (CurNext) a step.
Cur(i) == IF sim_args[i].v = 1 THEN vv_1 ELSE vv_2

\* The cells of buffer b (1 or 2) that a step stores or changes.
Touched(b) ==
    IF b = 1
    THEN {k \in DOMAIN vv_1' : k \notin DOMAIN vv_1 \/ vv_1'[k] # vv_1[k]}
    ELSE {k \in DOMAIN vv_2' : k \notin DOMAIN vv_2 \/ vv_2'[k] # vv_2[k]}

\* C17: double buffering.  While a worker is in its SSA phase no worker is
\* in the callback phase; a rate recomputed by an SSA step is the
\* propensity of the node's new counts and of the node's cells of v; a
\* buffer cell is stored only by a worker in its callback phase, in the
\* buffer that is not its v, for the node under its cursor; a worker's v
\* changes only in the exchange after all workers ended the day, which
\* leaves both buffers as they are and, when a next day follows, turns
\* every worker's v into what was its v_new.
C17_DoubleBuffering ==
    /\ [](\A i, j \in Workers :
             (pc = "run" /\ wpc[i] \in {"ssa", "step"}) => wpc[j] # "post")
    /\ [][\A i \in Workers :
             (pc = "run" /\ wpc[i] \in {"ssa", "step"}) =>
                \A n \in 0..(sim_args[i].Nn - 1) :
                   \A j \in 0..(Nt - 1) :
                      sim_args'[i].t_rate[n * Nt + j] #
                         sim_args[i].t_rate[n * Nt + j] =>
                      sim_args'[i].t_rate[n * Nt + j] =
                         tr_fun(args.mdl, j,
                                [c \in 0..(Nc - 1) |->
                                    uu'[(sim_args[i].Ni + n) * Nc + c]],
                                [d \in 0..(Nd - 1) |->
                                    Cur(i)[(sim_args[i].Ni + n) * Nd + d]],
                                sim_args'[i].t_time[n])]_vars
    /\ [][pc = "run" =>
             \A b \in {1, 2} :
                \A k \in Touched(b) :
                   \E i \in Workers :
                      /\ wpc[i] = "post"
                      /\ sim_args[i].v # b
                      /\ k \div Nd = sim_args[i].Ni + node[i]]_vars
    /\ [][\A i \in Workers :
             (IsSetUp(i) /\ sim_args'[i].v # sim_args[i].v) =>
                /\ pc = "run"
                /\ \A j \in Workers : wpc[j] = "end"
                /\ sim_args[i].v \in {1, 2}
                /\ sim_args'[i].v = 3 - sim_args[i].v
                /\ vv_1' = vv_1 /\ vv_2' = vv_2]_vars
    /\ [][(pc = "run" /\ (\A j \in Workers : wpc[j] = "end")
               /\ pc' = "run") =>
             \A i \in Workers : sim_args'[i].v # sim_args[i].v]_vars

\* On the second day a rate that depends on v has been recomputed by an
\* SSA step from a value that the callback stored on the first day.
C17_Witness ==
    /\ pc = "run"
    /\ \E i \in Workers :
          /\ wpc[i] = "step"
          /\ sim_args[i].tt >= TicksPerDay
          /\ sim_args[i].v = 2
          /\ args.mdl.usev[0]
          /\ \E n \in 0..(sim_args[i].Nn - 1) :
                /\ vv_2[(sim_args[i].Ni + n) * Nd + PHI] #
                      vv_1[(sim_args[i].Ni + n) * Nd + PHI]
                /\ <<"ssa", "u", (sim_args[i].Ni + n) * Nc>> \in wrote[i]

\* The sum of column tr of the state-change matrix S.
RECURSIVE SumPr(_, _, _)
SumPr(m, j, hi) == IF j >= hi THEN 0 ELSE m.prS[j] + SumPr(m, j + 1, hi)

ColSum(m, tr) == SumPr(m, m.jcS[tr], m.jcS[tr + 1])

\* The number of individuals of node gn in the count vector u.
RECURSIVE SumCells(_, _, _)
SumCells(u, lo, len) ==
    IF len = 0 THEN 0 ELSE u[lo] + SumCells(u, lo + 1, len - 1)

NodeTotal(u, gn) == SumCells(u, gn * Nc, Nc)

\* C18: a step changes the total of a node only if it is an event step or
\* if it is a step of the SSA of that node, by the worker that owns it,
\* that fires a transition whose column of S does not sum to zero, and
\* then by that sum: the firing of a conservative transition leaves the
\* node's total unchanged.  With conservative transitions only and no
\* events, every node has in every written column of U the total it has
\* in u0.
C18_ConservativeTotals ==
    /\ [][pc = "run" =>
             \A gn \in 0..(args.Nn - 1) :
                NodeTotal(uu', gn) # NodeTotal(uu, gn) =>
                   \/ \E i \in Workers :
                         \/ wpc[i] = "ssa" /\ wpc'[i] = "bar1"
                         \/ wpc[i] = "e2"
                   \/ \E i \in Workers :
                         /\ wpc[i] \in {"ssa", "step"}
                         /\ wpc'[i] = "step"
                         /\ gn = sim_args[i].Ni + node[i]
                         /\ node[i] < sim_args[i].Nn
                         /\ \E tr \in 0..(Nt - 1) :
                               /\ ColSum(args.mdl, tr) # 0
                               /\ NodeTotal(uu', gn) =
                                     NodeTotal(uu, gn) + ColSum(args.mdl, tr)
                               /\ sim_args[i].t_rate[node[i] * Nt + tr] # 0
            ]_vars
    /\ []((args.events = <<>>
              /\ \A tr \in 0..(Nt - 1) : ColSum(args.mdl, tr) = 0) =>
             \A k \in 0..(args.tlen - 1) :
                \A gn \in 0..(args.Nn - 1) :
                   Nc * (args.Nn * k + gn) \in DOMAIN U =>
                      SumCells(U, Nc * (args.Nn * k + gn), Nc) =
                         NodeTotal(args.u0, gn))

\* Without events and with conservative transitions only, a column
\* written after transitions fired differs from u0.
C18_Witness ==
    /\ args.events = <<>>
    /\ \A tr \in 0..(Nt - 1) : ColSum(args.mdl, tr) = 0
    /\ \E k \in DOMAIN U :
          /\ k >= args.Nn * Nc
          /\ U[k] # args.u0[k % (args.Nn * Nc)]
          /\ \A c \in 0..(Nc - 1) : ((k \div Nc) * Nc + c) \in DOMAIN U

\* C19: no block is ever freed twice; when SimInf_run_solver_ssa has
\* returned, whatever the allocation that failed, the result of the event
\* splitting or the code of the main loop, no block of the solver is left
\* allocated; when siminf_run has returned no block at all is left
\* allocated.
C19_AllFreedOnce ==
    mem.at # "off" =>
       /\ \A b \in DOMAIN mem.heap : mem.heap[b] # "twice"
       /\ mem.at \in {"wclean", "ret"} =>
             \A b \in SolverBlocks(args.Nthread) :
                mem.heap[b] \in {"null", "freed"}
       /\ mem.at = "ret" =>
             \A b \in DOMAIN mem.heap : mem.heap[b] \in {"null", "freed"}

\* siminf_run has returned after an allocation of the second worker
\* failed in the middle of the set-up loop.
C19_Witness ==
    /\ mem.at = "ret"
    /\ mem.err = SIMINF_ERR_ALLOC_MEMORY_BUFFER
    /\ args.Nthread = 2
    /\ mem.heap[<<"t_rate", 1>>] = "freed"
    /\ mem.heap[<<"sum_t_rate", 1>>] = "null"
    /\ mem.heap[<<"vv_2", 0>>] = "freed"
    /\ mem.heap[PrOf("S")] = "freed"

\* C20 as stated: a matrix whose x slot holds a value that is not a
\* representable integer is rejected: once its values are ingested
\* siminf_run holds an error code and the solver is not entered.
C20_NonIntegerRejected ==
    \A m \in {"N", "S"} :
        (/\ mem.at # "off"
         /\ mem.heap[PrOf(m)] # "null"
         /\ \E k \in DOMAIN mem.x[m] : ~Representable(mem.x[m][k])) =>
           /\ mem.err # 0
           /\ mem.at \in {"ingest", "wclean", "ret"}

InSsa(i) == pc = "run" /\ wpc[i] \in {"ssa", "step"}

\* The cached rates of node n of worker i are the propensities of the
\* node's current counts and of its cells of the current v.
Coherent(i, n) ==
    \A j \in 0..(Nt - 1) :
       sim_args[i].t_rate[n * Nt + j] =
          tr_fun(args.mdl, j,
                 [c \in 0..(Nc - 1) |-> uu[(sim_args[i].Ni + n) * Nc + c]],
                 [d \in 0..(Nd - 1) |->
                     (IF sim_args[i].v = 1 THEN vv_1 ELSE vv_2)
                        [(sim_args[i].Ni + n) * Nd + d]],
                 sim_args[i].t_time[n])

\* C22: rate-cache coherence.  The propensities of the models depend on
\* the counts and on v only, G lists both propensities for each
\* transition, the event processors flag the nodes they modify and the
\* callbacks return > 0 when they change v.  Whenever a worker is in its
\* SSA phase, every cached rate of each of its nodes that the phase has
\* still to step or is stepping is the propensity on the current state.
C22_CacheCoherent ==
    \A i \in Workers :
       InSsa(i) =>
          \A n \in 0..(sim_args[i].Nn - 1) :
             n >= node[i] => Coherent(i, n)

\* A worker starts the SSA of a day after an event changed the counts of
\* one of its nodes on the day before, with rates that are not those of
\* the initialisation.
C22_Witness ==
    /\ args.events # <<>>
    /\ \E i \in Workers :
          /\ InSsa(i)
          /\ wpc[i] = "ssa"
          /\ node[i] = 0
          /\ sim_args[i].errcode = 0
          /\ sim_args[i].E1_index > 1
          /\ \E n \in 0..(sim_args[i].Nn - 1) :
                \E j \in 0..(Nt - 1) :
                   sim_args[i].t_rate[n * Nt + j] #
                      tr_fun(args.mdl, j, uOf(args.u0, i, n),
                             vOf(args.v0, i, n), 0)

\* The step is one pass of the callback loop of worker i.
IsPostStep(i) ==
    /\ pc = "run"
    /\ wpc[i] = "post"
    /\ node'[i] = node[i] + 1 \/ wpc'[i] = "adv"

\* The return code of the callback for the node under the cursor of
\* worker i.
PostRc(i) ==
    pts_fun(args.mdl, uOf(uu, i, node[i]), vOf(Cur(i), i, node[i]),
            sim_args[i].Ni + node[i], sim_args[i].tt).rc

\* C23: a pass of the callback loop for a node whose callback returns
\* > 0 or whose flag is set stores for each of the Nt propensities its
\* value on (u, v_new), adds the sum of the differences to sum_t_rate and
\* clears the flag; a pass for a node whose callback returns 0 and whose
\* flag is clear leaves t_rate and sum_t_rate as they are.  No node of a
\* worker that is in its SSA phase is flagged.
C23_PostRefresh ==
    /\ [][\A i \in Workers :
             IsPostStep(i) =>
                LET n == node[i]
                    gn == sim_args[i].Ni + n
                    rc == PostRc(i)
                    newv == IF sim_args[i].v = 1 THEN vv_2' ELSE vv_1'
                    old(j) == sim_args[i].t_rate[n * Nt + j]
                    new(j) == sim_args'[i].t_rate[n * Nt + j]
                IN /\ (rc > 0 \/ (rc = 0 /\ update_node[gn] # 0)) =>
                        /\ \A j \in 0..(Nt - 1) :
                              new(j) = tr_fun(args.mdl, j, uOf(uu, i, n),
                                              [d \in 0..(Nd - 1) |->
                                                  newv[gn * Nd + d]],
                                              sim_args[i].tt)
                        /\ sim_args'[i].sum_t_rate[n] =
                              FAdd(sim_args[i].sum_t_rate[n],
                                   FAdd(FSub(new(0), old(0)),
                                        FSub(new(1), old(1))))
                        /\ update_node'[gn] = 0
                   /\ (rc = 0 /\ update_node[gn] = 0) =>
                        /\ sim_args'[i].t_rate = sim_args[i].t_rate
                        /\ sim_args'[i].sum_t_rate = sim_args[i].sum_t_rate
            ]_vars
    /\ [](\A i \in Workers :
             InSsa(i) =>
                \A n \in 0..(sim_args[i].Nn - 1) :
                   update_node[sim_args[i].Ni + n] = 0)

\* The callback of a node returned 0 and the rates of the node were
\* recomputed because an event had flagged it; the flag is clear again.
C23_Witness ==
    /\ pc = "run"
    /\ args.mdl.pts = "keep"
    /\ args.events # <<>>
    /\ \E i \in Workers :
          /\ wpc[i] \in {"post", "adv"}
          /\ \E n \in 0..(sim_args[i].Nn - 1) :
                /\ <<"post", "update_node", sim_args[i].Ni + n>> \in wrote[i]
                /\ update_node[sim_args[i].Ni + n] = 0
                /\ sim_args[i].t_rate[n * Nt + 1] #
                      tr_fun(args.mdl, 1, uOf(args.u0, i, n),
                             vOf(args.v0, i, n), 0)

\* The step is a pass of the step loop of worker i that fires a
\* transition.
IsFire(i) == InSsa(i) /\ wpc'[i] = "step" /\ sim_args'[i] # sim_args[i]

\* The counts of node gn after the step are those before it plus column
\* tr of the state-change matrix.
AddsColumn(gn, tr) ==
    \A c \in 0..(Nc - 1) :
       uu'[gn * Nc + c] =
          uu[gn * Nc + c]
          + SumPr([args.mdl EXCEPT
                      !.prS = [j \in DOMAIN args.mdl.prS |->
                                  IF args.mdl.irS[j] = c THEN args.mdl.prS[j]
                                  ELSE 0]],
                  args.mdl.jcS[tr], args.mdl.jcS[tr + 1])

\* C24: for a worker without a latched error that is about to step a
\* node, whatever is drawn, the selected transition has an index below Nt,
\* it is the highest one with a non-zero rate at or below the index where
\* the scan stopped (Nt - 1 if the scan ran over), its rate is positive,
\* and the step is a null event only if there is none.  A step that fires
\* adds the column of a transition with a positive cached rate; a null
\* event changes no count, sets the rate sum of the node to 0 and moves
\* on to the next node.
C24_FiredRatePositive ==
    /\ [](\A i \in Workers :
             (InSsa(i) /\ node[i] < sim_args[i].Nn
                 /\ sim_args[i].errcode = 0) =>
                LET sa == sim_args[i]
                    base == node[i] * Nt
                IN \A rand \in 1..sa.sum_t_rate[node[i]] :
                      LET sel == SelectTr(sa.t_rate, base, rand)
                          top == Min(ScanTr(sa.t_rate, base, 0,
                                            sa.t_rate[base], rand), Nt - 1)
                      IN /\ sel.tr \in 0..(Nt - 1)
                         /\ sel.tr <= top
                         /\ sel.nil = (\A k \in 0..top :
                                          sa.t_rate[base + k] = 0)
                         /\ ~sel.nil =>
                               /\ sa.t_rate[base + sel.tr] > 0
                               /\ \A k \in (sel.tr + 1)..top :
                                     sa.t_rate[base + k] = 0)
    /\ [][\A i \in Workers :
             LET n == node[i]
                 gn == sim_args[i].Ni + n
             IN /\ (IsFire(i) /\ sim_args[i].errcode = 0) =>
                      \E tr \in 0..(Nt - 1) :
                         /\ sim_args[i].t_rate[n * Nt + tr] > 0
                         /\ AddsColumn(gn, tr)
                /\ (InSsa(i) /\ n < sim_args[i].Nn /\ node'[i] = n + 1
                       /\ sim_args'[i].sum_t_rate[n] #
                             sim_args[i].sum_t_rate[n]) =>
                      /\ sim_args'[i].sum_t_rate[n] = 0
                      /\ uu' = uu
                      /\ sim_args'[i].t_rate = sim_args[i].t_rate
                      /\ wpc'[i] = "ssa"]_vars

\* A null event has occurred: the rate sum of a node already stepped
\* today is 0 and its clock stopped inside the day.
C24_Witness ==
    /\ args.fp = "rounded"
    /\ \E i \in Workers :
          /\ InSsa(i)
          /\ sim_args[i].errcode = 0
          /\ node[i] > 0
          /\ sim_args[i].sum_t_rate[node[i] - 1] = 0
          /\ sim_args[i].t_time[node[i] - 1] < sim_args[i].next_day

C26_ClockReachesNextDay ==
    \A i \in Workers :
       (pc = "run" /\ sim_args[i].errcode = 0) =>
          LET sa == sim_args[i]
          IN /\ InSsa(i) =>
                   \A n \in DOMAIN sa.t_time :
                      FLe(sa.tt, sa.t_time[n]) /\ FLe(sa.t_time[n], sa.next_day)
             /\ (wpc[i] = "ssa" /\ node[i] = 0) =>
                   \A n \in DOMAIN sa.t_time : sa.t_time[n] = sa.tt
             /\ (wpc[i] = "ssa" /\ node[i] = sa.Nn) =>
                   \A n \in DOMAIN sa.t_time : sa.t_time[n] = sa.next_day

\* C27: when worker i is to select the transition of a step of its node n,
\* whatever is drawn, the scan reads no entry of t_rate but the Nt cached
\* rates of node n, t_rate[n * Nt] to t_rate[n * Nt + Nt - 1].
C27_ScanReadsOwnRates ==
    \A i \in Workers :
       (InSsa(i) /\ node[i] < sim_args[i].Nn) =>
          LET sa == sim_args[i]
              n == node[i]
              sum == sa.sum_t_rate[n]
          IN (FGt(sum, 0) /\ \E d1 \in 1..TicksPerDay :
                                 ~FGe(FAdd(Tau(d1, sum), sa.t_time[n]),
                                      sa.next_day)) =>
                \A rand \in Rands(sum) :
                   ScanReads(sa.t_rate, n * Nt, 0, sa.t_rate[n * Nt], rand,
                             {n * Nt})
                      \subseteq (n * Nt)..(n * Nt + Nt - 1)

\* The vector of the result with the name col.
TrajColumn(col) ==
    LET cols == TrajCols(mem.in)
    IN mem.result[CHOOSE j \in 1..Len(cols) : cols[j] = col]

\* C28 without the time column: the result of SimInf_trajectory has
\* tlen * Nnodes rows; row t * Nnodes + k holds node nodes[k] (k + 1 when
\* nodes is NULL) and, for each selected compartment c, the value of the
\* state matrix at (t * Nn + node - 1) * stride + c - 1; every cell was
\* stored exactly once.
TrajLayout ==
    mem.at = "ret" =>
       LET in == mem.in
           Nnodes == TrajNnodes(in)
       IN /\ Len(mem.result) = 3 + Len(in.dm_i) + Len(in.cm_i)
          /\ \A j \in 1..Len(mem.result) :
                /\ DOMAIN mem.result[j] = 0..(in.tlen * Nnodes - 1)
                /\ \A r \in DOMAIN mem.writes[j] : mem.writes[j][r] = 1
          /\ \A t \in 0..(in.tlen - 1), k \in 0..(Nnodes - 1) :
                LET row == t * Nnodes + k
                    nd == IF in.nodes.null THEN k + 1 ELSE in.nodes.at[k + 1]
                IN /\ TrajColumn(<<"node", 0>>)[row] = nd
                   /\ \A i \in 1..Len(in.dm_i) :
                         TrajColumn(<<"dm", i>>)[row] =
                            in.dm[(t * in.Nn + nd - 1) * in.dm_stride
                                  + in.dm_i[i] - 1]
                   /\ \A i \in 1..Len(in.cm_i) :
                         TrajColumn(<<"cm", i>>)[row] =
                            in.cm[(t * in.Nn + nd - 1) * in.cm_stride
                                  + in.cm_i[i] - 1]

\* C28: the result of SimInf_trajectory is laid out time-major as above
\* and row t * Nnodes + k holds the time tspan[t].
C28_TimeMajorLayout ==
    /\ TrajLayout
    /\ mem.at = "ret" =>
          \A t \in 0..(mem.in.tlen - 1), k \in 0..(TrajNnodes(mem.in) - 1) :
             TrajColumn(<<"time", 0>>)[t * TrajNnodes(mem.in) + k]
                * TicksPerDay = mem.in.tspan[t]

\* The day of the year of the call, (int)t mod 365.
PtsDay == (mem.in.t \div TicksPerDay) % days_in_year

\* C29: after SISe_post_time_step the pressure is the old one scaled by
\* 1 - BETA_T1 on days 0..90 of the year, by 1 - BETA_T2 on days 91..181,
\* by 1 - BETA_T3 on days 182..272 and by 1 - BETA_T4 on days 273..364
\* (where q = day div 91 is 3 or 4), plus the growth term; the value
\* returned is never negative, and it is 1 if the stored pressure differs
\* from the one before the call and 0 if not.
C29_QuarterDecay ==
    mem.at = "ret" =>
       LET in == mem.in
           q == PtsDay \div days_in_quarter
           beta == IF PtsDay < days_in_quarter THEN BETA_T1
                   ELSE IF PtsDay < 2 * days_in_quarter THEN BETA_T2
                   ELSE IF PtsDay < 3 * days_in_quarter THEN BETA_T3
                   ELSE BETA_T4
           grow == IF in.u[I] + in.u[S] > 0
                   THEN (in.gdata[ALPHA] * in.u[I]) \div (in.u[I] + in.u[S])
                        + in.gdata[EPSILON]
                   ELSE in.gdata[EPSILON]
       IN /\ q \in 0..4
          /\ (q \in {3, 4}) = (PtsDay \in 273..364)
          /\ mem.v[PHI] = in.v[PHI] * (1 - in.gdata[beta]) + grow
          /\ mem.rc >= 0
          /\ (mem.rc = 1) = (mem.v[PHI] # in.v[PHI])
          /\ (mem.rc = 0) = (mem.v[PHI] = in.v[PHI])

\* The function was called on the last day of a year, where q = 4, with
\* the decay of the fourth quarter set, and has changed the pressure.
C29_Witness ==
    /\ mem.at = "ret"
    /\ PtsDay = 364
    /\ mem.in.gdata[BETA_T4] = 1
    /\ mem.in.v[PHI] = 1
    /\ mem.v[PHI] = 0
    /\ mem.rc = 1

====
